---- MODULE Spec2Model ----
(***************************************************************************)
(* A model of the maestro workflow engine (src/src/maestro/workflow.py):   *)
(* agent materialization, the bind phase, the step walk in blocking and    *)
(* streaming mode, context routing with `from`, the exception policy, and  *)
(* the event scheduler (process_event, _condition_subflow).                *)
(*                                                                         *)
(* Python values are records [ty, s]: ty is the Python type and s the      *)
(* value's str() form.  The locals of a run are keyed by the mode of the   *)
(* run ("blocking" for run(), "streaming" for run_streaming()), the fields *)
(* of a Workflow by the object; `self` says which object a run is made on. *)
(* The agent registry, the token accounting, the automatic evaluation and  *)
(* the code agent have their own variables and specifications.             *)
(***************************************************************************)
EXTENDS Integers, Sequences, FiniteSets, TLC

VARIABLES
    sched,         \* the calls the caller still has to make, in order
    given,         \* the definition as the caller wrote it (never assigned)
    self,          \* [mode -> the Workflow object the call is made on]
    prompt_arg,    \* [mode -> the `prompt` argument the call was made with]
    template,      \* [object -> self.workflow["spec"]["template"]]
    agents,        \* [object -> self.agents], the names the table holds
    context,       \* [object -> self._context]
    pc,            \* [mode -> position of the run]
    err,           \* [mode -> the exception in flight]
    current,       \* [mode -> execution pointer]
    prompt,        \* [mode -> the walk's local `prompt`]
    initial_prompt,\* [mode -> the walk's local `initial_prompt`]
    step_results,  \* [mode -> the walk's local `step_results`]
    step_index,    \* [mode -> the walk's local `step_index`]
    visits,        \* [mode -> history of the step invocations]
    invocations,   \* [mode -> history of the agent invocations]
    events,        \* [mode -> what run_streaming has yielded]
    outcome,       \* [mode -> how the call ended]
    result,        \* [mode -> process_event's `result`]
    run_once,      \* [mode -> process_event's `run_once`]
    ticks,         \* [mode -> history of the iterations of process_event's loop]
    polls,         \* [mode -> history of the evaluations of the exit predicate]
    sub_visits,    \* [mode -> history of _condition_subflow's step invocations]
    agents_db,     \* the content of the file agents.db: [agent name -> stored data]
    saved,         \* [agent name -> the agent and definition last given to save_agent]
    restored,      \* what restore_agent returned, if called since agents.db changed
    token_agents,  \* the table last given to aggregate_token_usage_from_agents
    total_token_usage, \* what it returned
    environ,       \* the environment of the last MockAgent.run: settings, library
    evaluation,    \* what auto_evaluate_response did in that run
    answer,        \* what that run did
    workflow_start_time, \* [object -> the clock reading of its last timing start]
    workflow_end_time,   \* [object -> the clock reading at which its timing was closed]
    timing_started,      \* [object -> its _timing_started flag]
    clock,         \* the last reading of time.time()
    venv_path,     \* the CodeAgent's venv_path
    venv_exists,   \* os.path.exists of the directory venv_path names when set
    code_env,      \* the environment of the last CodeAgent.run
    code_answer    \* what that run did

\* the scheduler's part of the state
event_vars == <<result, run_once, ticks, polls, sub_visits>>

run_vars == <<sched, given, self, prompt_arg, template, agents, context, pc, err, current, prompt, initial_prompt,
          step_results, step_index, visits, invocations, events, outcome,
          result, run_once, ticks, polls, sub_visits,
          workflow_start_time, workflow_end_time, timing_started, clock>>

\* the execution timing's part of the state
timing_vars == <<workflow_start_time, workflow_end_time, timing_started, clock>>

\* the agent registry's part of the state
store_vars == <<agents_db, saved, restored>>

\* the token accounting's part of the state
usage_vars == <<token_agents, total_token_usage>>

\* the automatic evaluation's part of the state
eval_vars == <<environ, evaluation, answer>>

\* the code agent's part of the state
code_vars == <<venv_path, venv_exists, code_env, code_answer>>

\* the state outside the runs
lib_vars == <<store_vars, usage_vars, eval_vars, code_vars>>

vars == <<run_vars, lib_vars>>

(***************************************************************************)
(* Bounds                                                                  *)
(***************************************************************************)
MaxSteps == 3
MaxVisits == 4
MaxTicks == 3

Modes == {"blocking", "streaming"}

\* the Workflow objects
Objects == {"w1", "w2"}

(***************************************************************************)
(* Python values                                                           *)
(***************************************************************************)
StrV(s) == [ty |-> "str", s |-> s]
NoneV == [ty |-> "NoneType", s |-> "None"]
DictV(s) == [ty |-> "dict", s |-> s]
ListV(s) == [ty |-> "list", s |-> s]
ErrV(s) == [ty |-> "error", s |-> s]

\* str(v)
Str(v) == v.s

\* repr(v), as str() of a list shows its items
Repr(v) == IF v.ty = "str" THEN "'" \o v.s \o "'" ELSE v.s

\* bool(v)
Truthy(v) ==
    CASE v.ty = "str" -> v.s # ""
      [] v.ty = "NoneType" -> FALSE
      [] v.ty = "dict" -> v.s # "{}"
      [] v.ty = "list" -> v.s # "[]"
      [] OTHER -> TRUE

\* v[:200] and len(v) are defined
Sliceable(v) == v.ty \in {"str", "list"}

(***************************************************************************)
(* Agents.  The table holds one handle per agent definition; a handle is   *)
(* known by its agent_name.  A reference held by a step is a name (as      *)
(* declared), a handle (once bound), None, or absent.                      *)
(***************************************************************************)
Absent == [st |-> "absent", id |-> ""]
Name(n) == [st |-> "name", id |-> n]
Handle(n) == [st |-> "handle", id |-> n]
None == [st |-> "none", id |-> ""]

\* the agent definitions given to the Workflow; "zz" names no definition
AgentDefs == {"a1", "a2", "bad"}
Dangling == "zz"

\* bool(ref)
RefTruthy(r) == r.st = "handle" \/ (r.st = "name" /\ r.id # "")

\* self.agents.get(ref)
AgentsGet(tbl, r) ==
    IF r.st = "name" /\ r.id \in tbl THEN Handle(r.id) ELSE None

\* the agents given to the Workflow by name only and restored from the
\* registry as pickled instances
RestoredAgents == {"r1"}

\* self._create_or_restore_agents(): one handle per definition, keyed by
\* the definition's metadata.name, and one per restored name
CreateOrRestoreAgents == AgentDefs \cup RestoredAgents

\* the handle's run is wrapped by log_agent_run: the handles constructed
\* from a definition are, the restored ones are stored as they come
Hooked(a) == a \in AgentDefs

\* MockAgent.run without instructions
MockAnswer(input) == StrV("Mock agent: answer for " \o Str(input))

\* The run operation of each agent: "a1" and "r1" are MockAgents without
\* instructions, "a2" a MockAgent whose instructions set the answer to
\* None, "bad" an agent whose run raises.
AgentRun(a, input) ==
    CASE a \in {"a1", "r1"} -> [ok |-> TRUE, out |-> MockAnswer(input)]
      [] a = "a2" -> [ok |-> TRUE, out |-> NoneV]
      [] OTHER -> [ok |-> FALSE,
                   out |-> ErrV("agent " \o a \o " failed on " \o Str(input))]

(***************************************************************************)
(* The agent registry: save_agent, restore_agent, remove_agent over the    *)
(* file agents.db                                                          *)
(***************************************************************************)
NoAgent == [agent_name |-> "", picklable |-> FALSE]
NoDoc == [apiVersion |-> "", name |-> "", labels |-> {}]

\* the agent instances given to save_agent: some cannot be pickled
AgentInstances == {[agent_name |-> n, picklable |-> b] : n \in {"a1", "a2"}, b \in BOOLEAN}

\* the keys of a definition's mappings, as loaded from YAML
StrKey == StrV("tier")
IntKey == [ty |-> "int", s |-> "1"]

\* the agent definitions: with the current apiVersion, another one, or none,
\* and with labels keyed by strings or by an integer
AgentDefinitions ==
    {[apiVersion |-> v, name |-> n, labels |-> ls] :
        v \in {"maestro/v1alpha1", "maestro/v1", ""},
        n \in {"a1", "a2"},
        ls \in {{}, {<<StrKey, "x">>}, {<<IntKey, "x">>}}}

\* pickle.dumps(agent)
PickleDumps(agent) ==
    IF agent.picklable
    THEN [ok |-> TRUE, data |-> [ty |-> "bytes", obj |-> agent, doc |-> NoDoc]]
    ELSE [ok |-> FALSE, data |-> [ty |-> "bytes", obj |-> NoAgent, doc |-> NoDoc]]

\* json.dumps(agent_def): the keys of a mapping are written as strings
JsonDumps(agent_def) ==
    [ty |-> "str", obj |-> NoAgent,
     doc |-> [agent_def EXCEPT !.labels = {<<StrV(kv[1].s), kv[2]>> : kv \in @}]]

\* json.loads(text)
JsonLoads(data) == data.doc

\* pickle.loads(data): TypeError unless data is a bytes object
PickleLoads(data) ==
    IF data.ty = "bytes" THEN [ok |-> TRUE, value |-> data.obj]
    ELSE [ok |-> FALSE, value |-> NoAgent]

\* `"maestro/v1alpha1" in agent_data`: a substring test on a str, TypeError
\* on a bytes object
HasMarker(data) ==
    IF data.ty = "bytes" THEN [ok |-> FALSE, is |-> FALSE]
    ELSE [ok |-> TRUE, is |-> data.doc.apiVersion = "maestro/v1alpha1"]

\* what restore_agent gives back
NotCalled == [st |-> "not called", kind |-> "", name |-> "", obj |-> NoAgent,
              doc |-> NoDoc, flag |-> FALSE]
GaveName(n) == [NotCalled EXCEPT !.st = "returned", !.kind = "name", !.name = n]
GaveDefinition(d) == [NotCalled EXCEPT !.st = "returned", !.kind = "definition", !.doc = d]
GaveInstance(a) ==
    [NotCalled EXCEPT !.st = "returned", !.kind = "instance", !.obj = a, !.flag = TRUE]
RestoreRaised == [NotCalled EXCEPT !.st = "raised"]

\* restore_agent(agent_name) over the loaded db
restore_agent(db, agent_name) ==
    IF agent_name \notin DOMAIN db THEN GaveName(agent_name)
    ELSE LET agent_data == db[agent_name]
             again == PickleLoads(agent_data)
         IN IF HasMarker(agent_data).ok
            THEN IF HasMarker(agent_data).is
                 THEN GaveDefinition(JsonLoads(agent_data))
                 ELSE \* pickle.loads raises and the handler calls it again
                      IF again.ok THEN GaveInstance(again.value) ELSE RestoreRaised
            ELSE IF again.ok THEN GaveInstance(again.value) ELSE RestoreRaised

\* the data save_agent stores: the pickled agent, or the definition as JSON
\* when pickling raises
AgentData(agent, agent_def) ==
    IF PickleDumps(agent).ok THEN PickleDumps(agent).data ELSE JsonDumps(agent_def)

(***************************************************************************)
(* Token accounting: aggregate_token_usage_from_agents                     *)
(***************************************************************************)
\* an agent of the table: whether it has get_token_usage, the counters of
\* its report and the descriptive entries of its report
TokenAgent(has, counters, notes) ==
    [has_get_token_usage |-> has, counters |-> counters, notes |-> notes]

Descriptive == ("agent_type" :> "scoring_agent") @@ ("description" :> "Uses Opik")

\* agents without the method, with full counters, with prompt_tokens only,
\* with counters but no prompt_tokens, and with a descriptive report
TokenAgents ==
    {TokenAgent(FALSE, <<>>, <<>>),
     TokenAgent(TRUE, ("prompt_tokens" :> 10) @@ ("response_tokens" :> 20)
                          @@ ("total_tokens" :> 30), <<>>),
     TokenAgent(TRUE, ("prompt_tokens" :> 5) @@ ("response_tokens" :> 10)
                          @@ ("total_tokens" :> 15), <<>>),
     TokenAgent(TRUE, ("prompt_tokens" :> 0) @@ ("response_tokens" :> 0)
                          @@ ("total_tokens" :> 0), <<>>),
     TokenAgent(TRUE, "prompt_tokens" :> 7, <<>>),
     TokenAgent(TRUE, ("response_tokens" :> 4) @@ ("total_tokens" :> 4), <<>>),
     TokenAgent(TRUE, <<>>, Descriptive)}

TokenAgentNames == <<"a1", "a2", "a3">>

\* the tables: any of the names, each with any of the agents
TokenTables ==
    UNION {[names -> TokenAgents] : names \in SUBSET {TokenAgentNames[i] : i \in 1..3}}

\* token_usage.get(key, 0)
GetOr0(token_usage, key) ==
    IF key \in DOMAIN token_usage THEN token_usage[key] ELSE 0

NoUsage ==
    [total_prompt_tokens |-> 0, total_response_tokens |-> 0, total_tokens |-> 0,
     agent_token_usage |-> <<>>]

\* a faulty variant of AddUsage: every report's counters are added
AddUsageOfEveryReport(total, agent_name, agent) ==
    IF ~agent.has_get_token_usage THEN total
    ELSE [total_prompt_tokens |-> total.total_prompt_tokens
                                    + GetOr0(agent.counters, "prompt_tokens"),
          total_response_tokens |-> total.total_response_tokens
                                    + GetOr0(agent.counters, "response_tokens"),
          total_tokens |-> total.total_tokens + GetOr0(agent.counters, "total_tokens"),
          agent_token_usage |-> (agent_name :> [counters |-> agent.counters,
                                                notes |-> agent.notes])
                                @@ total.agent_token_usage]

\* the body of the loop over agents.items()
AddUsage(total, agent_name, agent) ==
    IF ~agent.has_get_token_usage THEN total
    ELSE LET token_usage == agent.counters
             counted == "prompt_tokens" \in DOMAIN token_usage
             with == [total EXCEPT !.agent_token_usage =
                         (agent_name :> [counters |-> agent.counters,
                                         notes |-> agent.notes]) @@ @]
         IN IF counted
            THEN [with EXCEPT
                    !.total_prompt_tokens = @ + GetOr0(token_usage, "prompt_tokens"),
                    !.total_response_tokens = @ + GetOr0(token_usage, "response_tokens"),
                    !.total_tokens = @ + GetOr0(token_usage, "total_tokens")]
            ELSE with

\* the loop from the i-th name on, in the table's order
RECURSIVE AggregateFrom(_, _, _)
AggregateFrom(tbl, total, i) ==
    IF i > Len(TokenAgentNames) THEN total
    ELSE LET n == TokenAgentNames[i]
         IN AggregateFrom(tbl, IF n \in DOMAIN tbl THEN AddUsage(total, n, tbl[n])
                                                   ELSE total, i + 1)

aggregate_token_usage_from_agents(tbl) == AggregateFrom(tbl, NoUsage, 1)

(***************************************************************************)
(* Automatic evaluation: SimpleEvaluationMiddleware.evaluate_response as   *)
(* called by MockAgent.run.  The watsonx library is outside the program:   *)
(* which of its calls raises is part of the environment.                   *)
(***************************************************************************)
\* the calls of the library inside evaluate_response that may raise
Faults == {"none", "start_run", "answer_relevance", "metrics", "get_result", "dataframe"}

\* MAESTRO_AUTO_EVALUATION is "true"; the library was imported; the
\* evaluator was built by __init__; the call that raises
Environs ==
    [enabled : BOOLEAN, available : BOOLEAN, initialised : BOOLEAN, fault : Faults]

NoEnviron == [enabled |-> FALSE, available |-> FALSE, initialised |-> FALSE,
              fault |-> "none"]

\* what evaluate_response does: returns None, a result with the status of
\* its metrics, an evaluation_failed record, or raises
NotEvaluated == [st |-> "not called", status |-> ""]
EvalNone == [st |-> "none", status |-> ""]
EvalResult(status) == [st |-> "result", status |-> status]
EvalFailed == [st |-> "result", status |-> "evaluation_failed"]
EvalRaised == [st |-> "raised", status |-> ""]

\* the status of final_result["metrics"]: evaluation_results is empty only
\* when the metrics block as a whole raised
MetricsStatus(env) ==
    CASE env.fault = "metrics" -> "no_metrics"
      [] env.fault = "dataframe" -> "dataframe_creation_failed"
      [] OTHER -> "evaluated"

\* a faulty variant of evaluate_response: no try around the evaluation
evaluate_response_unguarded(env) ==
    IF ~env.enabled \/ ~env.available \/ ~(env.available /\ env.initialised)
    THEN EvalNone
    ELSE IF env.fault \in {"start_run", "get_result"} THEN EvalRaised
    ELSE EvalResult(MetricsStatus(env))

\* evaluate_response(agent_name, prompt, response, **kwargs)
evaluate_response(env) ==
    IF ~env.enabled THEN EvalNone
    ELSE IF ~env.available THEN EvalNone
    ELSE IF ~(env.available /\ env.initialised) THEN EvalNone
    ELSE IF env.fault \in {"start_run", "get_result"} THEN EvalFailed
    ELSE EvalResult(MetricsStatus(env))

\* auto_evaluate_response: the global middleware's evaluate_response
auto_evaluate_response(env) == evaluate_response(env)

\* what MockAgent.run does
NotRun == [ok |-> FALSE, out |-> NoneV]

\* venv_path before _create_virtual_env and after a removal: None
NoPath == ""

\* the environment of a CodeAgent.run, before any
NoCodeEnv == [dependencies |-> "absent", fault |-> "none", partial |-> FALSE,
              json |-> TRUE]

(***************************************************************************)
(* Step definitions and the bind phase                                     *)
(***************************************************************************)
NoFrom == [bare |-> FALSE, src |-> <<>>]
NoLoop == [present |-> FALSE, agent |-> Absent]

BaseStep(n, a) ==
    [name |-> n, agent |-> Name(a), workflow |-> "", parallel |-> <<>>,
     loop |-> NoLoop, from |-> NoFrom, cond |-> FALSE]

\* step.get("workflow") resolved against template.get("workflows")
WorkflowFound(workflows, w) == \E i \in 1..Len(workflows) : workflows[i].name = w

WorkflowUrl(workflows, w) ==
    LET i == CHOOSE j \in 1..Len(workflows) :
                 /\ workflows[j].name = w
                 /\ \A k \in (j+1)..Len(workflows) : workflows[k].name # w
    IN workflows[i].url

\* the binding of the parallel members: one table lookup per member, no check
BindParallel(tbl, members) ==
    [i \in 1..Len(members) |-> AgentsGet(tbl, members[i])]

\* the binding of a loop step's agent: one table lookup, no check
BindLoop(tbl, loop) == [loop EXCEPT !.agent = AgentsGet(tbl, loop.agent)]

\* if step.get("agent"): a name is replaced by its handle, or ValueError
BindAgent(tbl, step) ==
    IF RefTruthy(step.agent) /\ step.agent.st = "name"
    THEN LET h == AgentsGet(tbl, step.agent)
         IN IF h.st = "none"
            THEN [ok |-> FALSE, agent |-> h,
                  err |-> ErrV("Could not find agent named '" \o step.agent.id \o "'")]
            ELSE [ok |-> TRUE, agent |-> h, err |-> NoneV]
    ELSE [ok |-> TRUE, agent |-> step.agent, err |-> NoneV]

\* one iteration of the bind loop over `steps`
BindStep(tbl, workflows, step) ==
    LET a == BindAgent(tbl, step)
        s1 == [step EXCEPT !.agent = a.agent]
    IN IF ~a.ok THEN [ok |-> FALSE, step |-> s1, err |-> a.err]
       ELSE IF s1.workflow # "" /\ ~WorkflowFound(workflows, s1.workflow)
       THEN [ok |-> FALSE, step |-> s1, err |-> ErrV("Workflow doesn't exist")]
       ELSE LET s2 == IF s1.workflow # ""
                      THEN [s1 EXCEPT !.workflow = WorkflowUrl(workflows, s1.workflow)]
                      ELSE s1
                s3 == IF Len(s2.parallel) > 0
                      THEN [s2 EXCEPT !.parallel = BindParallel(tbl, s2.parallel)]
                      ELSE s2
                s4 == IF s3.loop.present
                      THEN [s3 EXCEPT !.loop = BindLoop(tbl, s3.loop)]
                      ELSE s3
            IN [ok |-> TRUE, step |-> s4, err |-> NoneV]

\* the bind loop from step i on: stops at the first step that raises
RECURSIVE BindFrom(_, _, _, _)
BindFrom(tbl, workflows, steps, i) ==
    IF i > Len(steps) THEN [ok |-> TRUE, steps |-> steps, err |-> NoneV]
    ELSE LET b == BindStep(tbl, workflows, steps[i])
             bound == [steps EXCEPT ![i] = b.step]
         IN IF b.ok THEN BindFrom(tbl, workflows, bound, i + 1)
            ELSE [ok |-> FALSE, steps |-> bound, err |-> b.err]

\* the wrapper of log_agent_run around an agent's run: without a step index
\* it raises before the agent runs
MissingStepIndex == ErrV("Missing step_index for logging.")

\* `logged`: the wrapper reached logger.log_agent_response and
\* _track_agent_execution_time, which follow the awaited run
LogAgentRun(a, input, hasIndex) ==
    IF Hooked(a) /\ ~hasIndex
    THEN [ok |-> FALSE, out |-> MissingStepIndex, ran |-> FALSE, logged |-> FALSE]
    ELSE LET r == AgentRun(a, input)
         IN [ok |-> r.ok, out |-> r.out, ran |-> TRUE,
             logged |-> Hooked(a) /\ r.ok]

(***************************************************************************)
(* The step executor (maestro.step.Step): dispatch by step kind.  A result *)
(* is [ok, out, calls]: the output or the error raised, and the agent      *)
(* invocations made, in order.                                             *)
(***************************************************************************)
LoopIters == 2

\* the record of one agent invocation made with a step index, and whether
\* the hook logged it
Invocation(a, input, idx) ==
    [agent |-> a, input |-> input, step_index |-> idx,
     logged |-> LogAgentRun(a, input, TRUE).logged]

NoAgentError == ErrV("'NoneType' object has no attribute 'run'")

\* handle.run(input, step_index=idx) on a bound reference
AgentCall(ref, input, idx) ==
    IF ref.st # "handle"
    THEN [ok |-> FALSE, out |-> NoAgentError, calls |-> <<>>]
    ELSE LET r == AgentRun(ref.id, input)
         IN [ok |-> r.ok, out |-> r.out,
             calls |-> <<Invocation(ref.id, input, idx)>>]

\* a nested run of a sub-workflow: its aggregate is the step's output
SubWorkflowRun(url, input) ==
    [ok |-> TRUE, out |-> DictV("{'final_prompt': " \o Repr(input) \o "}"),
     calls |-> <<>>]

RECURSIVE ReprJoin(_)
ReprJoin(outs) ==
    IF Len(outs) = 0 THEN ""
    ELSE IF Len(outs) = 1 THEN Repr(outs[1])
    ELSE Repr(outs[1]) \o ", " \o ReprJoin(Tail(outs))

\* the orders in which n concurrent members may complete
Completions(n) ==
    {p \in [1..n -> 1..n] : \A i, j \in 1..n : p[i] = p[j] => i = j}

\* a faulty variant of Gather: the outputs are listed as they complete
GatherAsCompleted(outs, order) == [k \in 1..Len(order) |-> outs[order[k]]]

\* the join of the members: each output, as its member completes, goes to
\* the member's own place in the list
RECURSIVE Gather(_, _)
Gather(outs, order) ==
    IF Len(order) = 0 THEN [i \in 1..Len(outs) |-> NoneV]
    ELSE LET k == order[Len(order)]
         IN [Gather(outs, SubSeq(order, 1, Len(order) - 1)) EXCEPT ![k] = outs[k]]

\* parallel fan-out: every member gets the same input; the members complete
\* in `order`; the output lists the members' outputs in member order; a
\* failing member fails the step
ParallelRun(members, input, idx, order) ==
    IF \E i \in 1..Len(members) : members[i].st # "handle"
    THEN [ok |-> FALSE, out |-> NoAgentError, calls |-> <<>>]
    ELSE LET rs == [i \in 1..Len(members) |-> AgentCall(members[i], input, idx)]
             cs == [i \in 1..Len(members) |-> rs[i].calls[1]]
         IN IF \E i \in 1..Len(members) : ~rs[i].ok
            THEN LET f == CHOOSE i \in 1..Len(members) :
                              ~rs[i].ok /\ \A j \in 1..(i-1) : rs[j].ok
                 IN [ok |-> FALSE, out |-> rs[f].out, calls |-> cs]
            ELSE [ok |-> TRUE,
                  out |-> ListV("[" \o ReprJoin(Gather(
                              [i \in 1..Len(members) |-> rs[i].out], order)) \o "]"),
                  calls |-> cs]

\* loop: each iteration's output is the next iteration's input
RECURSIVE LoopRun(_, _, _, _)
LoopRun(ref, input, idx, k) ==
    LET r == AgentCall(ref, input, idx)
    IN IF ~r.ok \/ k <= 1 THEN r
       ELSE LET rest == LoopRun(ref, r.out, idx, k - 1)
            IN [ok |-> rest.ok, out |-> rest.out, calls |-> r.calls \o rest.calls]

\* Step(step).run(input, step_index=idx), the members of a parallel step
\* completing in `order`
StepRun(step, input, idx, order) ==
    CASE RefTruthy(step.agent) -> AgentCall(step.agent, input, idx)
      [] step.workflow # "" -> SubWorkflowRun(step.workflow, input)
      [] Len(step.parallel) > 0 -> ParallelRun(step.parallel, input, idx, order)
      [] step.loop.present -> LoopRun(step.loop.agent, input, idx, LoopIters)
      [] OTHER -> [ok |-> TRUE, out |-> input, calls |-> <<>>]

\* the `next` a step result may carry: a step with a condition may name any
\* successor, declared or not; a step without one carries none
NoNext == [has |-> FALSE, to |-> ""]
NextTo(n) == [has |-> TRUE, to |-> n]
Undeclared == "ghost"

StepNexts(step, names) ==
    IF step.cond
    THEN {NoNext} \cup {NextTo(n) : n \in names \cup {Undeclared}}
    ELSE {NoNext}

(***************************************************************************)
(* Context routing                                                         *)
(***************************************************************************)
StepNamesOf(steps) == {steps[i].name : i \in 1..Len(steps)}

\* self.find_index(steps, name)
find_index(steps, name) ==
    CHOOSE i \in 1..Len(steps) :
        steps[i].name = name /\ \A j \in 1..(i-1) : steps[j].name # name

\* step_defs[name]: the last step declared under that name
StepDef(steps, name) ==
    steps[CHOOSE i \in 1..Len(steps) :
              steps[i].name = name /\ \A j \in (i+1)..Len(steps) : steps[j].name # name]

\* from_sources after the str -> [str] normalisation
FromSources(step) == step.from.src

\* the step that uses the agent named `source`: the first one in step_defs
AgentStepMatches(step, source) ==
    \/ (RefTruthy(step.agent) /\ step.agent.st = "handle" /\ step.agent.id = source)
    \/ (step.agent.st = "name" /\ step.agent.id = source)

AgentStepName(steps, source) ==
    IF \E i \in 1..Len(steps) : AgentStepMatches(steps[i], source)
    THEN steps[CHOOSE i \in 1..Len(steps) :
                   /\ AgentStepMatches(steps[i], source)
                   /\ \A j \in 1..(i-1) : ~AgentStepMatches(steps[j], source)].name
    ELSE ""

\* a faulty variant of ResolveSourceBlocking: a source without a recorded
\* output resolves to None instead of its own name
ResolveSourceBlockingStrict(source, initial, results, steps) ==
    IF source = "prompt" THEN initial
    ELSE IF source \in DOMAIN results THEN results[source]
    ELSE LET n == AgentStepName(steps, source)
         IN IF n # "" /\ n \in DOMAIN results THEN results[n] ELSE NoneV

\* one source of `from`, as _condition resolves it
ResolveSourceBlocking(source, initial, results, steps) ==
    IF source = "prompt" THEN initial
    ELSE IF source \in DOMAIN results THEN results[source]
    ELSE LET n == AgentStepName(steps, source)
         IN IF n # "" /\ n \in DOMAIN results THEN results[n] ELSE StrV(source)

\* one source of `from`, as _condition_streaming resolves it: "prompt" is
\* the walk's running prompt there
ResolveSourceStreaming(source, running, results) ==
    IF source = "prompt" THEN running
    ELSE IF source \in DOMAIN results THEN results[source]
    ELSE StrV(source)

RECURSIVE JoinTruthy(_)
JoinTruthy(inputs) ==
    IF Len(inputs) = 0 THEN ""
    ELSE LET rest == JoinTruthy(Tail(inputs))
             anyRest == \E i \in 2..Len(inputs) : Truthy(inputs[i])
         IN IF ~Truthy(inputs[1]) THEN rest
            ELSE IF anyRest THEN Str(inputs[1]) \o "\n\n" \o rest
            ELSE Str(inputs[1])

\* the prompt built from context_inputs
JoinInputs(inputs) ==
    IF Len(inputs) = 1 THEN inputs[1] ELSE StrV(JoinTruthy(inputs))

\* a faulty variant of EffectiveInput: a step without `from` is given the
\* output of its predecessor in declaration order
EffectiveInputDeclared(mode, step, initial, running, results, steps) ==
    IF Len(FromSources(step)) > 0
    THEN LET srcs == FromSources(step)
         IN JoinInputs([i \in 1..Len(srcs) |->
                IF mode = "blocking"
                THEN ResolveSourceBlocking(srcs[i], initial, results, steps)
                ELSE ResolveSourceStreaming(srcs[i], running, results)])
    ELSE LET i == find_index(steps, step.name)
         IN IF i > 1 /\ steps[i - 1].name \in DOMAIN results
            THEN results[steps[i - 1].name] ELSE initial

\* the effective input of a step
EffectiveInput(mode, step, initial, running, results, steps) ==
    IF Len(FromSources(step)) > 0
    THEN LET srcs == FromSources(step)
         IN JoinInputs([i \in 1..Len(srcs) |->
                IF mode = "blocking"
                THEN ResolveSourceBlocking(srcs[i], initial, results, steps)
                ELSE ResolveSourceStreaming(srcs[i], running, results)])
    ELSE running

\* the [CONTEXT ROUTING] print of _condition slices the prompt and takes its
\* length: it raises TypeError on a prompt that supports neither
RoutingPrintRaises(mode, step, input) ==
    mode = "blocking" /\ Len(FromSources(step)) > 0 /\ ~Sliceable(input)

\* a faulty variant of Aggregate: the map lacks final_prompt
AggregateStepsOnly(final, results) == results

\* {"final_prompt": prompt, **step_results}
Aggregate(final, results) == results @@ ("final_prompt" :> final)

\* a faulty variant of Record: a revisit keeps the entry it finds
RecordOnce(results, name, out) == results @@ (name :> out)

\* step_results[current] = prompt
Record(results, name, out) == (name :> out) @@ results

(***************************************************************************)
(* Outcomes and stream events                                              *)
(***************************************************************************)
Pending == [st |-> "pending", agg |-> <<>>, err |-> NoneV]
ReturnedAggregate(a) == [st |-> "returned", agg |-> a, err |-> NoneV]
ReturnedNone == [st |-> "returned_none", agg |-> <<>>, err |-> NoneV]
Raised(e) == [st |-> "raised", agg |-> <<>>, err |-> e]
Exhausted == [st |-> "exhausted", agg |-> <<>>, err |-> NoneV]

\* a faulty variant of StepEvent: the index as it stands after the increment
StepEventAfterIncrement(name, output, idx, agent) ==
    [kind |-> "step", step_name |-> name, step_result |-> output,
     step_index |-> idx + 1,
     agent_name |-> IF RefTruthy(agent) THEN StrV(agent.id) ELSE NoneV]

\* the step event of _condition_streaming; idx is the index the step was
\* invoked with
StepEvent(name, output, idx, agent) ==
    [kind |-> "step", step_name |-> name, step_result |-> output,
     step_index |-> idx,
     agent_name |-> IF RefTruthy(agent) THEN StrV(agent.id) ELSE NoneV]
FinalEvent(a) == [kind |-> "final_result", final_result |-> a]
ErrorEvent(e) == [kind |-> "error", error |-> Str(e)]

(***************************************************************************)
(* The definitions a run may be given                                      *)
(***************************************************************************)
AllStepNames == <<"s1", "s2", "s3", "s4", "s5">>
StepNameAt(i) == AllStepNames[i]

Workflows == <<[name |-> "w1", url |-> "http://w1"]>>

\* template.get("event")
NoEvent == [present |-> FALSE, cron |-> "", agent |-> "", steps |-> <<>>, exit |-> ""]
EventSpec(a, names, x) ==
    [present |-> TRUE, cron |-> "* * * * *", agent |-> a, steps |-> names, exit |-> x]

NoException == [present |-> FALSE, agent |-> ""]
ExceptionAgent(a) == [present |-> TRUE, agent |-> a]
Exceptions == {NoException} \cup {ExceptionAgent(a) : a \in {"a1", "bad", Dangling}}

\* the shapes of the one step that differs from the plain agent steps
KindShapes(n) ==
    {[BaseStep(n, "a1") EXCEPT !.agent = Name(a)] : a \in {"a2", "bad", Dangling}}
    \cup {[BaseStep(n, "a1") EXCEPT !.agent = Absent, !.workflow = w] : w \in {"w1", "wz"}}
    \cup {[BaseStep(n, "a1") EXCEPT !.agent = Absent, !.parallel = ms] :
            ms \in {<<Name("a1"), Name("a2")>>, <<Name("a1"), Name(Dangling)>>,
                    <<Name("a2"), Name("a1"), Name("r1")>>}}
    \cup {[BaseStep(n, "a1") EXCEPT !.agent = Absent,
                                    !.loop = [present |-> TRUE, agent |-> Name(a)]] :
            a \in {"a1", Dangling}}

FromShapes(n) ==
    {[BaseStep(n, "a1") EXCEPT !.from = f] :
        f \in {[bare |-> TRUE, src |-> <<"prompt">>],
               [bare |-> TRUE, src |-> <<"s1">>],
               [bare |-> FALSE, src |-> <<"s1">>],
               [bare |-> TRUE, src |-> <<"a2">>],
               [bare |-> FALSE, src |-> <<"prompt", "s1">>],
               [bare |-> FALSE, src |-> <<"s1", "s2", "prompt">>],
               [bare |-> FALSE, src |-> <<"a1", "s3">>]}}

CondShapes(n) == {[BaseStep(n, "a1") EXCEPT !.cond = TRUE]}

Shapes(n) == {BaseStep(n, "a1")} \cup KindShapes(n) \cup FromShapes(n) \cup CondShapes(n)

\* n steps named s1..sn on the agent `base`, the step at position sp shaped
StepsOf(n, base, sp, shape) ==
    [i \in 1..n |-> IF i = sp THEN shape ELSE BaseStep(StepNameAt(i), base)]

TemplatesOf(n, sp) ==
    {[prompt |-> StrV("T"), steps |-> StepsOf(n, base, sp, shape),
      workflows |-> Workflows, exception |-> x, event |-> NoEvent] :
        base \in {"a1", "a2"}, shape \in Shapes(StepNameAt(sp)), x \in Exceptions}

\* n steps, each with a condition that may name any successor; the agent of
\* the last one may be one whose run raises
CondTemplates ==
    {[prompt |-> StrV("T"),
      steps |-> [i \in 1..n |->
                    [BaseStep(StepNameAt(i), IF i = n THEN last ELSE "a1")
                         EXCEPT !.cond = TRUE]],
      workflows |-> Workflows, exception |-> NoException, event |-> NoEvent] :
        n \in 1..MaxSteps, last \in {"a1", "bad"}}

Templates ==
    CondTemplates
    \cup UNION {UNION {TemplatesOf(n, sp) : sp \in 1..n} : n \in 1..MaxSteps}

\* the exit expressions of an event: none, a constant, a test on the
\* results map, and a test on the world outside the run
ExitTrue == "True"
ExitInMap == "'s3' in input"
ExitWorld == "os.path.exists('stop')"
ExitExprs == {"", ExitTrue, ExitInMap, ExitWorld}

\* the sub-sequences an event may name: the last two steps in declaration
\* order, the same two reversed, the last but one alone, none
EventStepNames ==
    {<<>>, <<StepNameAt(MaxSteps - 1)>>,
     <<StepNameAt(MaxSteps - 1), StepNameAt(MaxSteps)>>,
     <<StepNameAt(MaxSteps), StepNameAt(MaxSteps - 1)>>}

EventAgents == {"", "a1", "r1", Dangling}

Events == {EventSpec(a, names, x) :
              a \in EventAgents, names \in EventStepNames, x \in ExitExprs}

\* the steps of the definitions with an event: plain agent steps, the last
\* one possibly routed from "prompt", the last but one possibly a loop
EventStepLists ==
    {StepsOf(MaxSteps, "a1", MaxSteps, shape) :
        shape \in {BaseStep(StepNameAt(MaxSteps), "a1"),
                   [BaseStep(StepNameAt(MaxSteps), "a1") EXCEPT
                        !.from = [bare |-> TRUE, src |-> <<"prompt">>]]}}
    \cup {StepsOf(MaxSteps, "a1", MaxSteps - 1,
                  [BaseStep(StepNameAt(MaxSteps - 1), "a1") EXCEPT
                       !.agent = Absent,
                       !.loop = [present |-> TRUE, agent |-> Name("a1")]])}

\* definitions that declare an event
EventTemplates ==
    {[prompt |-> StrV("T"), steps |-> sts, workflows |-> Workflows,
      exception |-> NoException, event |-> ev] :
        sts \in EventStepLists, ev \in Events}

\* definitions whose steps carry no condition: their walks are linear
LinearTemplates == {t \in Templates : \A i \in 1..Len(t.steps) : ~t.steps[i].cond}

\* the prompt argument of run / run_streaming
PromptArgs == {StrV(""), StrV("A")}

\* the prompt arguments of two calls that are in flight together
TaskPromptArgs == PromptArgs \cup {StrV("B")}

\* the definitions given to a Workflow that is run twice: two steps, the
\* second one plain, routed from "prompt", on a failing agent, parallel or
\* a sub-workflow, with and without an event
TaskTemplates ==
    {[prompt |-> StrV("T"), steps |-> StepsOf(2, "a1", 2, shape),
      workflows |-> Workflows, exception |-> NoException, event |-> ev] :
        shape \in {BaseStep(StepNameAt(2), "a1"),
                   [BaseStep(StepNameAt(2), "a1") EXCEPT
                        !.from = [bare |-> TRUE, src |-> <<"prompt">>]],
                   BaseStep(StepNameAt(2), "bad"),
                   [BaseStep(StepNameAt(2), "a1") EXCEPT
                        !.agent = Absent,
                        !.parallel = <<Name("a1"), Name("a2")>>],
                   [BaseStep(StepNameAt(2), "a1") EXCEPT
                        !.agent = Absent, !.workflow = "w1"]},
        ev \in {NoEvent, EventSpec("", <<StepNameAt(2)>>, ExitWorld),
                EventSpec("a1", <<>>, ExitTrue)}}

(***************************************************************************)
(* Execution timing                                                        *)
(***************************************************************************)
\* workflow_start_time / workflow_end_time before they are set: None. The
\* readings of the clock are positive.
NoTime == 0

\* _start_workflow_timing: the start is set to a new reading of the clock
StartWorkflowTiming(o) ==
    /\ clock' = clock + 1
    /\ workflow_start_time' = [workflow_start_time EXCEPT ![o] = clock + 1]
    /\ timing_started' = [timing_started EXCEPT ![o] = TRUE]
    /\ UNCHANGED workflow_end_time

\* _end_workflow_timing: the end is set and the flag cleared only when the
\* timing is started and no end has been set yet
EndWorkflowTiming(o) ==
    IF timing_started[o] /\ workflow_end_time[o] = NoTime
    THEN /\ clock' = clock + 1
         /\ workflow_end_time' = [workflow_end_time EXCEPT ![o] = clock + 1]
         /\ timing_started' = [timing_started EXCEPT ![o] = FALSE]
         /\ UNCHANGED workflow_start_time
    ELSE UNCHANGED timing_vars

\* _get_workflow_execution_time
get_workflow_execution_time(o) ==
    IF workflow_start_time[o] # NoTime /\ workflow_end_time[o] # NoTime
    THEN workflow_end_time[o] - workflow_start_time[o]
    ELSE 0

(***************************************************************************)
(* Initial states: the Workflow objects as constructed, one per call       *)
(***************************************************************************)
InitWith(calls, objs, t) ==
    /\ sched = calls
    /\ given = t
    /\ self = objs
    /\ prompt_arg = [m \in Modes |-> NoneV]
    /\ template = [o \in Objects |-> t]
    /\ agents = [o \in Objects |-> {}]
    /\ context = [o \in Objects |-> <<>>]
    /\ pc = [m \in Modes |-> "idle"]
    /\ err = [m \in Modes |-> NoneV]
    /\ current = [m \in Modes |-> ""]
    /\ prompt = [m \in Modes |-> NoneV]
    /\ initial_prompt = [m \in Modes |-> NoneV]
    /\ step_results = [m \in Modes |-> <<>>]
    /\ step_index = [m \in Modes |-> 0]
    /\ visits = [m \in Modes |-> <<>>]
    /\ invocations = [m \in Modes |-> <<>>]
    /\ events = [m \in Modes |-> <<>>]
    /\ outcome = [m \in Modes |-> Pending]
    /\ result = [m \in Modes |-> <<>>]
    /\ run_once = [m \in Modes |-> TRUE]
    /\ ticks = [m \in Modes |-> <<>>]
    /\ polls = [m \in Modes |-> <<>>]
    /\ sub_visits = [m \in Modes |-> <<>>]
    /\ workflow_start_time = [o \in Objects |-> NoTime]
    /\ workflow_end_time = [o \in Objects |-> NoTime]
    /\ timing_started = [o \in Objects |-> FALSE]
    /\ clock = 0
    /\ agents_db = <<>>
    /\ saved = <<>>
    /\ restored = NotCalled
    /\ token_agents = <<>>
    /\ total_token_usage = NoUsage
    /\ environ = NoEnviron
    /\ evaluation = NotEvaluated
    /\ answer = NotRun
    /\ venv_path = NoPath
    /\ venv_exists = FALSE
    /\ code_env = NoCodeEnv
    /\ code_answer = NotRun

\* every call on a Workflow object of its own
OwnObject == [m \in Modes |-> IF m = "blocking" THEN "w1" ELSE "w2"]

\* one call, run() or run_streaming(), on a fresh Workflow
Init == \E m \in Modes, t \in Templates : InitWith(<<m>>, OwnObject, t)

\* run() and then run_streaming(), each on a fresh Workflow built from the
\* same definition
InitBoth == \E t \in LinearTemplates : InitWith(<<"blocking", "streaming">>, OwnObject, t)

\* both calls on the same Workflow object
SharedObject == [m \in Modes |-> "w1"]

\* run() and run_streaming() on one Workflow, as two tasks of one event
\* loop, started in either order
InitTasks ==
    \E calls \in {<<"blocking", "streaming">>, <<"streaming", "blocking">>},
       t \in TaskTemplates : InitWith(calls, SharedObject, t)

\* one call on a fresh Workflow whose definition declares an event
InitEvent == \E m \in Modes, t \in EventTemplates : InitWith(<<m>>, OwnObject, t)

(***************************************************************************)
(* run(prompt) / run_streaming(prompt) up to the walk                      *)
(***************************************************************************)
\* the head of run(prompt) / run_streaming(prompt): the prompt written into
\* the template, the agent table built
Call(m, p) ==
    /\ UNCHANGED lib_vars
    /\ sched # <<>> /\ Head(sched) = m
    /\ pc[m] = "idle"
    /\ sched' = Tail(sched)
    /\ template' = [template EXCEPT ![self[m]].prompt = IF Truthy(p) THEN p ELSE @]
    /\ agents' = [agents EXCEPT ![self[m]] = CreateOrRestoreAgents]
    /\ pc' = [pc EXCEPT ![m] = "bind"]
    /\ prompt_arg' = [prompt_arg EXCEPT ![m] = p]
    /\ UNCHANGED <<given, err, current, prompt, initial_prompt, step_results,
                   step_index, visits, invocations, events, outcome>>
    /\ UNCHANGED event_vars
    /\ UNCHANGED <<self, context>>
    /\ StartWorkflowTiming(self[m])

\* a call made when no other call is in flight
Run(m, p) ==
    /\ \A k \in Modes : pc[k] \in {"idle", "done"}
    /\ Call(m, p)

\* the head of _condition / _condition_streaming: the bind loop and the
\* walk's locals
Bind(m) ==
    /\ UNCHANGED lib_vars
    /\ pc[m] = "bind"
    /\ LET t == template[self[m]]
           b == BindFrom(agents[self[m]], t.workflows, t.steps, 1)
       IN /\ template' = [template EXCEPT ![self[m]].steps = b.steps]
          /\ initial_prompt' = [initial_prompt EXCEPT ![m] = t.prompt]
          /\ IF b.ok
             THEN /\ pc' = [pc EXCEPT ![m] = "walk"]
                  /\ current' = [current EXCEPT ![m] = t.steps[1].name]
                  /\ prompt' = [prompt EXCEPT ![m] = t.prompt]
                  /\ step_results' = [step_results EXCEPT ![m] = <<>>]
                  /\ step_index' = [step_index EXCEPT ![m] = 0]
                  /\ err' = err
             ELSE /\ pc' = [pc EXCEPT ![m] = "except"]
                  /\ err' = [err EXCEPT ![m] = b.err]
                  /\ UNCHANGED <<current, prompt, step_results, step_index>>
    /\ UNCHANGED <<sched, given, agents, visits, invocations, events, outcome>>
    /\ UNCHANGED event_vars
    /\ UNCHANGED <<self, prompt_arg, context>>
    /\ UNCHANGED timing_vars

\* a faulty variant of Advance: declaration order wins over `next`
AdvanceIgnoresNext(steps, cur, nx) ==
    IF cur = steps[Len(steps)].name THEN [stop |-> TRUE, to |-> cur]
    ELSE [stop |-> FALSE, to |-> steps[find_index(steps, cur) + 1].name]

\* a faulty variant of Advance: the walk wraps around after the last step
AdvanceWraps(steps, cur, nx) ==
    IF nx.has THEN [stop |-> FALSE, to |-> nx.to]
    ELSE [stop |-> FALSE,
          to |-> steps[(find_index(steps, cur) % Len(steps)) + 1].name]

\* the successor of `cur` when its result carries `nx`
Advance(steps, cur, nx) ==
    IF nx.has THEN [stop |-> FALSE, to |-> nx.to]
    ELSE IF cur = steps[Len(steps)].name THEN [stop |-> TRUE, to |-> cur]
    ELSE [stop |-> FALSE, to |-> steps[find_index(steps, cur) + 1].name]

\* one iteration of the walk's `while True`
Visit(m) ==
    /\ UNCHANGED lib_vars
    /\ pc[m] = "walk"
    /\ step_index[m] < MaxVisits
    /\ LET steps == template[self[m]].steps
           cur == current[m]
       IN IF cur \notin StepNamesOf(steps)
          THEN /\ pc' = [pc EXCEPT ![m] = "except"]
               /\ err' = [err EXCEPT ![m] = ErrV("'" \o cur \o "'")]
               /\ UNCHANGED <<current, prompt, step_results, step_index,
                              visits, invocations, events, context>>
          ELSE LET def == StepDef(steps, cur)
                   input == EffectiveInput(m, def, initial_prompt[m], prompt[m],
                                           step_results[m], steps)
               IN IF RoutingPrintRaises(m, def, input)
                  THEN /\ pc' = [pc EXCEPT ![m] = "except"]
                       /\ err' = [err EXCEPT ![m] =
                                     ErrV("'" \o input.ty \o "' object is not subscriptable")]
                       /\ UNCHANGED <<current, prompt, step_results, step_index,
                                      visits, invocations, events, context>>
                  ELSE \E order \in Completions(Len(def.parallel)) :
                       LET r == StepRun(def, input, step_index[m], order)
                       IN /\ invocations' = [invocations EXCEPT ![m] = @ \o r.calls]
                          /\ IF ~r.ok
                             THEN /\ pc' = [pc EXCEPT ![m] = "except"]
                                  /\ err' = [err EXCEPT ![m] = r.out]
                                  /\ visits' = [visits EXCEPT ![m] = Append(@,
                                        [step |-> cur, input |-> input,
                                         step_index |-> step_index[m],
                                         ok |-> FALSE, next |-> NoNext,
                                         out |-> r.out])]
                                  /\ UNCHANGED <<current, prompt, step_results,
                                                 step_index, events, context>>
                             ELSE \E nx \in StepNexts(def, StepNamesOf(steps)) :
                                  LET adv == Advance(steps, cur, nx)
                                  IN /\ prompt' = [prompt EXCEPT ![m] = r.out]
                                     /\ step_results' = [step_results EXCEPT ![m] =
                                            Record(@, cur, r.out)]
                                     /\ context' = [context EXCEPT ![self[m]] =
                                            IF m = "blocking"
                                            THEN Record(step_results[m], cur, r.out)
                                            ELSE @]
                                     /\ step_index' = [step_index EXCEPT ![m] = @ + 1]
                                     /\ visits' = [visits EXCEPT ![m] = Append(@,
                                            [step |-> cur, input |-> input,
                                             step_index |-> step_index[m],
                                             ok |-> TRUE, next |-> nx,
                                             out |-> r.out])]
                                     /\ events' = [events EXCEPT ![m] =
                                            IF m = "streaming"
                                            THEN Append(@, StepEvent(cur, r.out,
                                                     step_index[m], def.agent))
                                            ELSE @]
                                     /\ current' = [current EXCEPT ![m] = adv.to]
                                     /\ pc' = [pc EXCEPT ![m] =
                                            IF adv.stop THEN "walked" ELSE "walk"]
                                     /\ err' = err
    /\ UNCHANGED <<sched, given, template, agents, initial_prompt, outcome>>
    /\ UNCHANGED event_vars
    /\ UNCHANGED <<self, prompt_arg>>
    /\ UNCHANGED timing_vars

\* a faulty variant of Return: the stream ends without its final_result event
ReturnNoFinal(m) ==
    /\ UNCHANGED lib_vars
    /\ pc[m] = "walked"
    /\ outcome' = [outcome EXCEPT ![m] =
           IF m = "blocking"
           THEN ReturnedAggregate(Aggregate(prompt[m], step_results[m]))
           ELSE Exhausted]
    /\ pc' = [pc EXCEPT ![m] = "done"]
    /\ UNCHANGED <<sched, given, template, agents, err, current, prompt,
                   initial_prompt, step_results, step_index, visits,
                   invocations, events>>
    /\ UNCHANGED event_vars
    /\ UNCHANGED <<self, prompt_arg, context>>
    /\ EndWorkflowTiming(self[m])

\* after the walk: _condition returns the aggregate and run() returns it;
\* _condition_streaming yields it as the final_result event and the stream ends
\* With an event declared, run() passes the aggregate to process_event and
\* run_streaming passes it the last event it yielded.
Return(m) ==
    /\ UNCHANGED lib_vars
    /\ pc[m] = "walked"
    /\ LET agg == Aggregate(prompt[m], step_results[m])
           ev == template[self[m]].event.present
       IN /\ IF m = "blocking"
             THEN /\ outcome' = [outcome EXCEPT ![m] =
                                    IF ev THEN @ ELSE ReturnedAggregate(agg)]
                  /\ events' = events
                  /\ result' = [result EXCEPT ![m] = IF ev THEN agg ELSE @]
             ELSE /\ events' = [events EXCEPT ![m] = Append(@, FinalEvent(agg))]
                  /\ outcome' = [outcome EXCEPT ![m] = IF ev THEN @ ELSE Exhausted]
                  /\ result' = [result EXCEPT ![m] =
                                   IF ev THEN ("final_result" :> agg) ELSE @]
          /\ pc' = [pc EXCEPT ![m] = IF ev THEN "polling" ELSE "done"]
    /\ UNCHANGED <<sched, given, template, agents, err, current, prompt, initial_prompt,
                   step_results, step_index, visits, invocations,
                   run_once, ticks, polls, sub_visits>>
    /\ UNCHANGED <<self, prompt_arg, context>>
    /\ IF m = "blocking" \/ ~template[self[m]].event.present
       THEN EndWorkflowTiming(self[m])
       ELSE UNCHANGED timing_vars

(***************************************************************************)
(* The exception policy: the `except Exception as err` of run and of       *)
(* run_streaming.  A policy result is [calls, outcome, events].            *)
(***************************************************************************)
\* handler = self.agents.get(exc_def.get("agent")), when exc_def is truthy
Handler(tbl, exception) ==
    IF exception.present THEN AgentsGet(tbl, Name(exception.agent)) ELSE None

\* await handler.run(err, step_index=-1)
HandlerCall(h, e) == AgentCall(h, e, -1)

\* a faulty variant of ExceptBlocking: the error is raised again after the
\* handler has run
ExceptBlockingReraises(tbl, exception, e) ==
    LET h == Handler(tbl, exception)
    IN IF exception.present /\ RefTruthy(h)
       THEN [calls |-> HandlerCall(h, e).calls, outcome |-> Raised(e), events |-> <<>>]
       ELSE [calls |-> <<>>, outcome |-> Raised(e), events |-> <<>>]

\* run(): the handler swallows the error, or the error is raised again
ExceptBlocking(tbl, exception, e) ==
    LET h == Handler(tbl, exception)
    IN IF exception.present /\ RefTruthy(h)
       THEN LET r == HandlerCall(h, e)
            IN [calls |-> r.calls,
                outcome |-> IF r.ok THEN ReturnedNone ELSE Raised(r.out),
                events |-> <<>>]
       ELSE [calls |-> <<>>, outcome |-> Raised(e), events |-> <<>>]

\* run_streaming(): with a handler that resolves, the handler runs and the
\* error event is yielded as well; with one that does not, nothing is
\* yielded; without a declared handler, the error event is yielded
ExceptStreaming(tbl, exception, e) ==
    LET h == Handler(tbl, exception)
    IN IF exception.present
       THEN IF RefTruthy(h)
            THEN LET r == HandlerCall(h, e)
                 IN IF r.ok
                    THEN [calls |-> r.calls, outcome |-> Exhausted,
                          events |-> <<ErrorEvent(e)>>]
                    ELSE [calls |-> r.calls, outcome |-> Raised(r.out),
                          events |-> <<>>]
            ELSE [calls |-> <<>>, outcome |-> Exhausted, events |-> <<>>]
       ELSE [calls |-> <<>>, outcome |-> Exhausted, events |-> <<ErrorEvent(e)>>]

Except(m) ==
    /\ UNCHANGED lib_vars
    /\ pc[m] = "except"
    /\ LET x == IF m = "blocking"
                THEN ExceptBlocking(agents[self[m]], template[self[m]].exception, err[m])
                ELSE ExceptStreaming(agents[self[m]], template[self[m]].exception, err[m])
       IN /\ invocations' = [invocations EXCEPT ![m] = @ \o x.calls]
          /\ outcome' = [outcome EXCEPT ![m] = x.outcome]
          /\ events' = [events EXCEPT ![m] = @ \o x.events]
    /\ pc' = [pc EXCEPT ![m] = "done"]
    /\ UNCHANGED <<sched, given, template, agents, err, current, prompt, initial_prompt,
                   step_results, step_index, visits>>
    /\ UNCHANGED event_vars
    /\ UNCHANGED <<self, prompt_arg, context>>
    /\ EndWorkflowTiming(self[m])

(***************************************************************************)
(* The event scheduler: process_event and _condition_subflow               *)
(***************************************************************************)
\* eval_expression(exit_expr, result), with `world` what the expression
\* finds outside the results map when it looks there
eval_expression(expression, input, world) ==
    CASE expression = ExitTrue -> TRUE
      [] expression = ExitInMap -> "s3" \in DOMAIN input
      [] expression = ExitWorld -> world
      [] OTHER -> FALSE

\* the agent part of the body.  The outcome is [ok, result, err, call]:
\* the updated map or the error raised, and the call the agent's own run
\* received, if it was reached.
EventAgentRun(tbl, ev, res) ==
    IF ev.agent = ""
    THEN [ok |-> TRUE, result |-> res, err |-> NoneV, call |-> <<>>]
    ELSE LET agent == AgentsGet(tbl, Name(ev.agent))
         IN IF ~RefTruthy(agent)
            THEN [ok |-> FALSE, result |-> res, call |-> <<>>,
                  err |-> ErrV("Agent '" \o ev.agent \o "' not found for event")]
            ELSE IF "final_prompt" \notin DOMAIN res
            THEN [ok |-> FALSE, result |-> res, call |-> <<>>,
                  err |-> ErrV("'final_prompt'")]
            ELSE LET r == LogAgentRun(agent.id, res["final_prompt"], FALSE)
                     call == IF r.ran
                             THEN <<[agent |-> agent.id,
                                     input |-> res["final_prompt"]]>>
                             ELSE <<>>
                 IN IF r.ok
                    THEN [ok |-> TRUE, err |-> NoneV, call |-> call,
                          result |-> ("final_prompt" :> r.out) @@
                                     (ev.agent :> r.out) @@ res]
                    ELSE [ok |-> FALSE, result |-> res, err |-> r.out,
                          call |-> call]

\* sub_defs: the declared steps the event names, in declaration order
SubDefs(steps, names) ==
    SelectSeq(steps, LAMBDA st : \E i \in 1..Len(names) : names[i] = st.name)

\* the head of _condition_subflow: the loop steps among sub_defs are bound
\* again, by a table lookup on whatever their agent field holds by now
SubBind(tbl, steps, names) ==
    [i \in 1..Len(steps) |->
        IF (\E j \in 1..Len(names) : names[j] = steps[i].name) /\ steps[i].loop.present
        THEN [steps[i] EXCEPT !.loop = BindLoop(tbl, steps[i].loop)]
        ELSE steps[i]]

\* one source of `from`, as _condition_subflow resolves it
ResolveSourceSubflow(source, running, results, steps) ==
    IF source = "prompt" THEN running
    ELSE IF source \in DOMAIN results THEN results[source]
    ELSE LET n == AgentStepName(steps, source)
         IN IF n # "" /\ n \in DOMAIN results THEN results[n] ELSE StrV(source)

\* the effective input of a step of the sub-sequence
EffectiveInputSubflow(step, running, results, steps) ==
    IF Len(FromSources(step)) > 0
    THEN LET srcs == FromSources(step)
         IN JoinInputs([i \in 1..Len(srcs) |->
                ResolveSourceSubflow(srcs[i], running, results, steps)])
    ELSE running

\* the tail of one iteration of process_event's loop, the k-th, reached with the
\* cron expression matching: the exit predicate is evaluated, if there is
\* one, and process_event returns the map when it holds; run() returns that
\* map, run_streaming yields it as a final_result event.  Otherwise the
\* scheduler sleeps until the next tick.
Poll(m, res, world, k) ==
    LET ev == template[self[m]].event
        value == eval_expression(ev.exit, res, world)
    IN /\ polls' = [polls EXCEPT ![m] =
              IF ev.exit # ""
              THEN Append(@, [tick |-> k, value |-> value])
              ELSE @]
       /\ IF ev.exit # "" /\ value
          THEN /\ pc' = [pc EXCEPT ![m] = "done"]
               /\ IF m = "blocking"
                  THEN /\ outcome' = [outcome EXCEPT ![m] = ReturnedAggregate(res)]
                       /\ events' = events
                  ELSE /\ outcome' = [outcome EXCEPT ![m] = Exhausted]
                       /\ events' = [events EXCEPT ![m] = Append(@, FinalEvent(res))]
          ELSE /\ pc' = [pc EXCEPT ![m] = "polling"]
               /\ UNCHANGED <<outcome, events>>

\* an exception leaves process_event for the except block of run
EventRaises(m, e) ==
    /\ pc' = [pc EXCEPT ![m] = "except"]
    /\ err' = [err EXCEPT ![m] = e]
    /\ UNCHANGED <<outcome, events, polls>>

\* a faulty variant of Fires: the body is run at every cron match
FiresAtEveryMatch(match, once) == match

\* the body is run in this iteration: the cron expression matches now and
\* run_once is still set
Fires(match, once) == match /\ once

\* a faulty variant of InCronBranch: the exit check is made on every tick
InCronBranchAlways(match) == TRUE

\* the iteration enters `if pycron.is_now(cron):`, which holds the body and
\* the exit check
InCronBranch(match) == match

\* one iteration of process_event's `while True`, up to the sleep or up to
\* the first step of the sub-sequence
Tick(m) ==
    /\ UNCHANGED lib_vars
    /\ pc[m] = "polling"
    /\ Len(ticks[m]) < MaxTicks
    /\ \E match \in BOOLEAN, world \in BOOLEAN :
         LET ev == template[self[m]].event
             a == EventAgentRun(agents[self[m]], ev, result[m])
             fire == Fires(match, run_once[m])
         IN /\ ticks' = [ticks EXCEPT ![m] = Append(@,
                   [match |-> match, fire |-> fire, world |-> world,
                    call |-> IF fire THEN a.call ELSE <<>>])]
            /\ IF ~InCronBranch(match)
               THEN UNCHANGED <<pc, err, outcome, events, polls, result, run_once,
                                template, current, prompt, step_results, step_index>>
               ELSE IF ~fire
               THEN /\ Poll(m, result[m], world, Len(ticks[m]) + 1)
                    /\ UNCHANGED <<err, result, run_once, template, current, prompt,
                                   step_results, step_index>>
               ELSE IF ~a.ok
               THEN /\ EventRaises(m, a.err)
                    /\ UNCHANGED <<result, run_once, template, current, prompt,
                                   step_results, step_index>>
               ELSE IF ev.steps = <<>>
               THEN /\ result' = [result EXCEPT ![m] = a.result]
                    /\ run_once' = [run_once EXCEPT ![m] = FALSE]
                    /\ Poll(m, a.result, world, Len(ticks[m]) + 1)
                    /\ UNCHANGED <<err, template, current, prompt, step_results,
                                   step_index>>
               ELSE IF "final_prompt" \notin DOMAIN a.result
               THEN /\ EventRaises(m, ErrV("'final_prompt'"))
                    /\ UNCHANGED <<result, run_once, template, current, prompt,
                                   step_results, step_index>>
               ELSE /\ result' = [result EXCEPT ![m] = a.result]
                    /\ template' = [template EXCEPT ![self[m]].steps =
                                       SubBind(agents[self[m]], @, ev.steps)]
                    /\ current' = [current EXCEPT ![m] = ev.steps[1]]
                    /\ prompt' = [prompt EXCEPT ![m] = a.result["final_prompt"]]
                    /\ step_results' = [step_results EXCEPT ![m] = <<>>]
                    /\ step_index' = [step_index EXCEPT ![m] = 0]
                    /\ pc' = [pc EXCEPT ![m] = "subflow"]
                    /\ UNCHANGED <<err, outcome, events, polls, run_once>>
    /\ UNCHANGED <<sched, given, agents, initial_prompt, visits, invocations,
                   sub_visits>>
    /\ UNCHANGED <<self, prompt_arg, context>>
    /\ IF m = "streaming" /\ pc'[m] = "done"
       THEN EndWorkflowTiming(self[m])
       ELSE UNCHANGED timing_vars

\* one iteration of _condition_subflow's `while True`; the last one returns
\* to process_event, which merges the walk's map and goes on to the tail of
\* its own iteration
SubVisit(m) ==
    /\ UNCHANGED lib_vars
    /\ pc[m] = "subflow"
    /\ step_index[m] < MaxVisits
    /\ LET ev == template[self[m]].event
           steps == SubDefs(template[self[m]].steps, ev.steps)
           cur == current[m]
       IN IF cur \notin StepNamesOf(steps)
          THEN /\ EventRaises(m, ErrV("'" \o cur \o "'"))
               /\ UNCHANGED <<current, prompt, step_results, step_index, result,
                              run_once, sub_visits, invocations>>
          ELSE LET def == StepDef(steps, cur)
                   input == EffectiveInputSubflow(def, prompt[m], step_results[m], steps)
               IN \E order \in Completions(Len(def.parallel)) :
                  LET r == StepRun(def, input, step_index[m], order)
                  IN
                  /\ invocations' = [invocations EXCEPT ![m] = @ \o r.calls]
                  /\ IF ~r.ok
                     THEN /\ EventRaises(m, r.out)
                          /\ sub_visits' = [sub_visits EXCEPT ![m] = Append(@,
                                [step |-> cur, input |-> input,
                                 step_index |-> step_index[m],
                                 ok |-> FALSE, next |-> NoNext, out |-> r.out])]
                          /\ UNCHANGED <<current, prompt, step_results, step_index,
                                         result, run_once>>
                     ELSE \E nx \in StepNexts(def, StepNamesOf(template[self[m]].steps)),
                             world \in BOOLEAN :
                          LET adv == Advance(steps, cur, nx)
                              results == Record(step_results[m], cur, r.out)
                              merged == Aggregate(r.out, results) @@ result[m]
                          IN /\ prompt' = [prompt EXCEPT ![m] = r.out]
                             /\ step_results' = [step_results EXCEPT ![m] = results]
                             /\ step_index' = [step_index EXCEPT ![m] = @ + 1]
                             /\ sub_visits' = [sub_visits EXCEPT ![m] = Append(@,
                                    [step |-> cur, input |-> input,
                                     step_index |-> step_index[m],
                                     ok |-> TRUE, next |-> nx, out |-> r.out])]
                             /\ current' = [current EXCEPT ![m] = adv.to]
                             /\ err' = err
                             /\ IF adv.stop
                                THEN /\ result' = [result EXCEPT ![m] = merged]
                                     /\ run_once' = [run_once EXCEPT ![m] = FALSE]
                                     /\ Poll(m, merged, world, Len(ticks[m]))
                                ELSE UNCHANGED <<pc, outcome, events, polls, result,
                                                 run_once>>
    /\ UNCHANGED <<sched, given, template, agents, initial_prompt, visits, ticks>>
    /\ UNCHANGED <<self, prompt_arg, context>>
    /\ IF m = "streaming" /\ pc'[m] = "done"
       THEN EndWorkflowTiming(self[m])
       ELSE UNCHANGED timing_vars

Next ==
    \/ \E m \in Modes, p \in PromptArgs : Run(m, p)
    \/ \E m \in Modes : Bind(m)
    \/ \E m \in Modes : Visit(m)
    \/ \E m \in Modes : Return(m)
    \/ \E m \in Modes : Except(m)

Spec == Init /\ [][Next]_vars

SpecBoth == InitBoth /\ [][Next]_vars

\* the steps of a run whose definition declares an event
NextEvent ==
    \/ \E m \in Modes, p \in PromptArgs : Run(m, p)
    \/ \E m \in Modes : Bind(m)
    \/ \E m \in Modes : Visit(m)
    \/ \E m \in Modes : Return(m)
    \/ \E m \in Modes : Tick(m)
    \/ \E m \in Modes : SubVisit(m)
    \/ \E m \in Modes : Except(m)

SpecEvent == InitEvent /\ [][NextEvent]_vars

(***************************************************************************)
(* The agent registry on its own: no workflow is run                       *)
(***************************************************************************)
\* the definition of the Workflow that stays idle
IdleTemplate ==
    [prompt |-> StrV("T"), steps |-> StepsOf(1, "a1", 1, BaseStep(StepNameAt(1), "a1")),
     workflows |-> Workflows, exception |-> NoException, event |-> NoEvent]

InitStore == InitWith(<<>>, OwnObject, IdleTemplate)

\* save_agent(agent, agent_def)
SaveAgent(agent, agent_def) ==
    /\ UNCHANGED <<eval_vars, code_vars>>
    /\ UNCHANGED usage_vars
    /\ agents_db' = (agent.agent_name :> AgentData(agent, agent_def)) @@ agents_db
    /\ saved' = (agent.agent_name :> [agent |-> agent, agent_def |-> agent_def]) @@ saved
    /\ restored' = NotCalled
    /\ UNCHANGED run_vars

\* restore_agent(agent_name)
RestoreAgent(agent_name) ==
    /\ UNCHANGED <<eval_vars, code_vars>>
    /\ UNCHANGED usage_vars
    /\ restored' = [restore_agent(agents_db, agent_name) EXCEPT !.name = agent_name]
    /\ UNCHANGED <<agents_db, saved>>
    /\ UNCHANGED run_vars

\* remove_agent(agent_name) of a stored agent
RemoveAgent(agent_name) ==
    /\ UNCHANGED <<eval_vars, code_vars>>
    /\ UNCHANGED usage_vars
    /\ agent_name \in DOMAIN agents_db
    /\ agents_db' = [n \in DOMAIN agents_db \ {agent_name} |-> agents_db[n]]
    /\ saved' = [n \in DOMAIN saved \ {agent_name} |-> saved[n]]
    /\ restored' = NotCalled
    /\ UNCHANGED run_vars

RegistryNames == {"a1", "a2", "a3"}

NextStore ==
    \/ \E agent \in AgentInstances, agent_def \in AgentDefinitions :
           SaveAgent(agent, agent_def)
    \/ \E n \in RegistryNames : RestoreAgent(n)
    \/ \E n \in RegistryNames : RemoveAgent(n)

SpecStore == InitStore /\ [][NextStore]_vars

(***************************************************************************)
(* The token accounting on its own                                          *)
(***************************************************************************)
AggregateTokenUsage(tbl) ==
    /\ UNCHANGED <<eval_vars, code_vars>>
    /\ token_agents' = tbl
    /\ total_token_usage' = aggregate_token_usage_from_agents(tbl)
    /\ UNCHANGED store_vars
    /\ UNCHANGED run_vars

NextUsage == \E tbl \in TokenTables : AggregateTokenUsage(tbl)

SpecUsage == InitStore /\ [][NextUsage]_vars

(***************************************************************************)
(* MockAgent.run on its own, in every environment                          *)
(***************************************************************************)
\* MockAgent.run(prompt) without instructions: the answer, the automatic
\* evaluation of it, the return
MockAgentRun(input, env) ==
    LET e == auto_evaluate_response(env)
    IN /\ environ' = env
       /\ evaluation' = e
       /\ answer' = IF e.st = "raised"
                    THEN [ok |-> FALSE, out |-> ErrV("evaluation raised")]
                    ELSE [ok |-> TRUE, out |-> MockAnswer(input)]
       /\ UNCHANGED <<store_vars, usage_vars, code_vars>>
       /\ UNCHANGED run_vars

MockPrompts == {StrV(""), StrV("T"), StrV("A")}

NextEval == \E input \in MockPrompts, env \in Environs : MockAgentRun(input, env)

SpecEval == InitStore /\ [][NextEval]_vars

(***************************************************************************)
(* CodeAgent.run and its virtual environment                               *)
(***************************************************************************)
\* tempfile.gettempdir()/venv-<agent_name>-<pid>: one path per agent and
\* process
VenvPath == "venv-a1-1"

\* the call that fails: none, `python -m venv`, `pip install`, the
\* execution of the agent's code, shutil.rmtree
CodeFaults == {"none", "venv", "pip", "exec", "rmtree"}

\* metadata.dependencies: absent, blank, a requirements list
Dependencies == {"absent", "blank", "requests"}

\* the dependencies, the failing call, whether a failed `python -m venv`
\* leaves a directory behind, and whether the code's stdout is JSON
CodeEnvs ==
    [dependencies : Dependencies, fault : CodeFaults, partial : BOOLEAN,
     json : BOOLEAN]

\* _create_virtual_env: the path is set and the directory made; on a
\* failure the path is reset and RuntimeError raised
create_virtual_env(exists, env) ==
    IF env.fault = "venv"
    THEN [ok |-> FALSE, path |-> NoPath, exists |-> exists \/ env.partial,
          out |-> ErrV("Error creating virtual environment")]
    ELSE [ok |-> TRUE, path |-> VenvPath, exists |-> TRUE, out |-> NoneV]

\* _install_dependencies: the environment is created, then pip installs the
\* requirements when there are any; a failing pip raises RuntimeError
install_dependencies(exists, env) ==
    LET v == create_virtual_env(exists, env)
    IN IF ~v.ok THEN v
       ELSE IF env.dependencies \in {"absent", "blank"} THEN v
       ELSE IF env.fault = "pip"
       THEN [v EXCEPT !.ok = FALSE, !.out = ErrV("Failed to install dependencies")]
       ELSE v

\* _remove_virtual_env: a set path whose directory exists is removed and
\* reset; a failing rmtree resets the path and leaves the directory
remove_virtual_env(path, exists, env) ==
    IF path # NoPath /\ exists
    THEN [path |-> NoPath, exists |-> env.fault = "rmtree"]
    ELSE [path |-> path, exists |-> exists]

\* stdout parsed as JSON, or taken as it is when it is not JSON
CodeOutput(args, env) ==
    IF env.json THEN StrV("{'out': '" \o Str(args) \o "'}") ELSE StrV(Str(args))

\* CodeAgent.run: dependencies are installed before the try block; inside
\* it the code is executed, its output parsed and the environment removed;
\* both except clauses remove the environment and raise
code_run(exists, args, env) ==
    LET i == install_dependencies(exists, env)
    IN IF ~i.ok
       THEN [path |-> i.path, exists |-> i.exists,
             answer |-> [ok |-> FALSE, out |-> i.out]]
       ELSE LET r == remove_virtual_env(i.path, i.exists, env)
            IN IF env.fault = "exec"
               THEN [path |-> r.path, exists |-> r.exists,
                     answer |-> [ok |-> FALSE,
                                 out |-> ErrV("Failed to execute agent code in virtual environment")]]
               ELSE [path |-> r.path, exists |-> r.exists,
                     answer |-> [ok |-> TRUE, out |-> CodeOutput(args, env)]]

\* await agent.run(args) on the one CodeAgent
CodeAgentRun(args, env) ==
    LET r == code_run(venv_exists, args, env)
    IN /\ venv_path' = r.path
       /\ venv_exists' = r.exists
       /\ code_env' = env
       /\ code_answer' = r.answer
       /\ UNCHANGED <<store_vars, usage_vars, eval_vars>>
       /\ UNCHANGED run_vars

NextCode == \E args \in MockPrompts, env \in CodeEnvs : CodeAgentRun(args, env)

SpecCode == InitStore /\ [][NextCode]_vars

(***************************************************************************)
(* Two calls as tasks of one asyncio event loop.  A task gives up the loop *)
(* only at an `await` that suspends: the agent invocation inside a step    *)
(* (Visit, SubVisit, Except are each one such await with the code around   *)
(* it).  From the call to the first step, from the last step to the        *)
(* return, and across process_event's time.sleep(30), the task keeps the   *)
(* loop.                                                                   *)
(***************************************************************************)
HoldsLoop(k) == pc[k] \in {"bind", "walked", "except", "polling"}

\* the loop is free for task m
Free(m) == \A k \in Modes \ {m} : ~HoldsLoop(k)

TaskCall(m, p) == Free(m) /\ Call(m, p)
TaskBind(m) == Free(m) /\ Bind(m)
TaskVisit(m) == Free(m) /\ Visit(m)
TaskReturn(m) == Free(m) /\ Return(m)
TaskExcept(m) == Free(m) /\ Except(m)
TaskTick(m) == Free(m) /\ Tick(m)
TaskSubVisit(m) == Free(m) /\ SubVisit(m)

NextTasks ==
    \/ \E m \in Modes, p \in TaskPromptArgs : TaskCall(m, p)
    \/ \E m \in Modes : TaskBind(m)
    \/ \E m \in Modes : TaskVisit(m)
    \/ \E m \in Modes : TaskReturn(m)
    \/ \E m \in Modes : TaskExcept(m)
    \/ \E m \in Modes : TaskTick(m)
    \/ \E m \in Modes : TaskSubVisit(m)

SpecTasks == InitTasks /\ [][NextTasks]_vars

(***************************************************************************)
(* Properties                                                              *)
(***************************************************************************)
Last(q) == q[Len(q)]

DeclaredNames(m) == [i \in 1..Len(template[self[m]].steps) |-> template[self[m]].steps[i].name]

\* no completed step of the run carried a `next`
NoNextTaken(m) == \A i \in 1..Len(visits[m]) : ~visits[m][i].next.has

\* the run raised somewhere between the bind phase and the end of the walk
Failed(m) == err[m] # NoneV

\* the walk ran to its end
WalkEnded(m) == pc[m] = "walked" \/ (pc[m] = "done" /\ ~Failed(m))

\* C1: in a walk (blocking or streaming) in which no step result carries a
\* `next`, the steps are visited in declaration order, each at most once
\* (the i-th visit is of the i-th declared step), the walk ends exactly when
\* the last declared step has completed, and a walk that ends has visited
\* every declared step exactly once.
C1_LinearWalkTerminates ==
    \A m \in Modes :
        NoNextTaken(m) =>
            /\ Len(visits[m]) <= Len(template[self[m]].steps)
            /\ \A i \in 1..Len(visits[m]) : visits[m][i].step = DeclaredNames(m)[i]
            /\ WalkEnded(m) => Len(visits[m]) = Len(template[self[m]].steps)
            /\ (Len(visits[m]) = Len(template[self[m]].steps) /\ Last(visits[m]).ok)
                   => WalkEnded(m)

\* a walk of three steps without `next` has ended, in either mode
C1_Witness ==
    \E m \in Modes :
        /\ pc[m] = "done" /\ ~Failed(m) /\ NoNextTaken(m)
        /\ Len(template[self[m]].steps) >= 3
        /\ Len(visits[m]) = Len(template[self[m]].steps)

\* C2: whenever a completed step's result carries next = X, the step visited
\* next is X and the execution pointer is X, whatever X's place in the
\* declaration order; a `next` carried by the last declared step keeps the
\* walk from ending there.
C2_NextIsFollowed ==
    \A m \in Modes :
        /\ \A i \in 1..(Len(visits[m]) - 1) :
               visits[m][i].next.has => visits[m][i + 1].step = visits[m][i].next.to
        /\ (Len(visits[m]) > 0 /\ Last(visits[m]).next.has)
               => /\ current[m] = Last(visits[m]).next.to
                  /\ ~WalkEnded(m)

\* a forward jump over s2 followed by a backward jump taken from the last
\* declared step, both followed
C2_Witness ==
    \E m \in Modes :
        /\ Len(template[self[m]].steps) = 3
        /\ Len(visits[m]) >= 3
        /\ visits[m][1].step = "s1" /\ visits[m][1].next = NextTo("s3")
        /\ visits[m][2].step = "s3" /\ visits[m][2].next = NextTo("s1")
        /\ visits[m][3].step = "s1"

\* C3: a run_streaming whose walk was linear (no `next`, no failing step)
\* has yielded exactly one step event per declared step, in declaration
\* order, then exactly one final_result event, and nothing else.
C3_LinearStreamEvents ==
    LET m == "streaming"
        n == Len(template[self[m]].steps)
    IN (NoNextTaken(m) /\ ~Failed(m)) =>
           /\ Len(events[m]) <= n + 1
           /\ \A i \in 1..Len(events[m]) :
                  IF i <= n
                  THEN /\ events[m][i].kind = "step"
                       /\ events[m][i].step_name = DeclaredNames(m)[i]
                  ELSE events[m][i].kind = "final_result"
           /\ pc[m] = "done" => Len(events[m]) = n + 1

\* the stream of a three-step linear workflow has ended
C3_Witness ==
    /\ pc["streaming"] = "done" /\ ~Failed("streaming") /\ NoNextTaken("streaming")
    /\ Len(template[self["streaming"]].steps) = 3
    /\ Len(events["streaming"]) = 4
    /\ Last(events["streaming"]).kind = "final_result"

\* run() returned an aggregate and the stream of run_streaming ended with a
\* final_result event, both started with the same prompt
BothCompleted ==
    /\ pc["blocking"] = "done" /\ outcome["blocking"].st = "returned"
    /\ pc["streaming"] = "done" /\ Len(events["streaming"]) > 0
    /\ Last(events["streaming"]).kind = "final_result"
    /\ template[self["blocking"]].prompt = template[self["streaming"]].prompt

\* C4: for the same definition and prompt, the map carried by the
\* final_result event of run_streaming equals the aggregate run() returns,
\* also when non-first steps route with `from` ("prompt", step names, agent
\* names).
C4_StreamingEqualsBlocking ==
    BothCompleted =>
        Last(events["streaming"]).final_result = outcome["blocking"].agg

\* the handler the run's exception policy resolves to
HandlerOf(m) == Handler(agents[self[m]], template[self[m]].exception)

\* the invocations made with the error-handler step index
HandlerInvocations(m) ==
    SelectSeq(invocations[m], LAMBDA c : c.step_index = -1)

\* a declared, resolving handler was invoked exactly once, with the raised
\* error and step index -1, as the last invocation of the run, and no step
\* was visited after the failing one
HandledOnce(m) ==
    /\ Len(HandlerInvocations(m)) = 1
    /\ Last(invocations[m]) = Invocation(HandlerOf(m).id, err[m], -1)
    /\ \A i \in 1..(Len(visits[m]) - 1) : visits[m][i].ok

BlockingFailedWithHandler ==
    /\ pc["blocking"] = "done" /\ Failed("blocking")
    /\ RefTruthy(HandlerOf("blocking"))

\* C5 as stated: in blocking mode, when a step raises and the declared
\* handler resolves, the handler is invoked exactly once with the error and
\* step index -1, run() returns None, and no further step is executed.
C5_HandlerSwallows ==
    BlockingFailedWithHandler =>
        /\ HandledOnce("blocking")
        /\ outcome["blocking"] = ReturnedNone

\* C5 amended: as above, but run() returns None only when the handler's own
\* invocation returns; when the handler's run raises, run() raises the
\* handler's error.
C5_HandlerSwallowsIfItReturns ==
    BlockingFailedWithHandler =>
        LET r == AgentRun(HandlerOf("blocking").id, err["blocking"])
        IN /\ HandledOnce("blocking")
           /\ r.ok => outcome["blocking"] = ReturnedNone
           /\ ~r.ok => outcome["blocking"] = Raised(r.out)

\* the second step of a blocking run raised, the handler ran and run()
\* returned None
C5_Witness ==
    /\ BlockingFailedWithHandler
    /\ Len(visits["blocking"]) = 2
    /\ visits["blocking"][1].ok /\ ~visits["blocking"][2].ok
    /\ outcome["blocking"] = ReturnedNone
    /\ Len(HandlerInvocations("blocking")) = 1

HandlerInvoked(m) == Len(HandlerInvocations(m)) > 0

ErrorEvents(m) == SelectSeq(events[m], LAMBDA e : e.kind = "error")

\* the run's error reached the caller: raised by run(), or yielded as an
\* error event by run_streaming
ErrorSurfaced(m) ==
    \/ (outcome[m].st = "raised" /\ outcome[m].err = err[m])
    \/ Len(ErrorEvents(m)) > 0

\* the handler, if it was invoked, returned
HandlerReturned(m) ==
    HandlerInvoked(m) => AgentRun(HandlerOf(m).id, err[m]).ok

\* C6: for any failing run, blocking or streaming, whose handler (if run)
\* returns, exactly one recovery outcome occurs: the handler is invoked and
\* the error is swallowed (nothing raised, no error event), or no handler is
\* invoked and the error is surfaced (raised by run(), exactly one error
\* event from run_streaming); never a handler invocation and a surfaced
\* error for the same failure.
C6_ExactlyOneRecovery ==
    \A m \in Modes :
        (pc[m] = "done" /\ Failed(m) /\ HandlerReturned(m)) =>
            /\ ~(HandlerInvoked(m) /\ ErrorSurfaced(m))
            /\ HandlerInvoked(m) \/ ErrorSurfaced(m)
            /\ (m = "streaming" /\ ~HandlerInvoked(m)) => Len(ErrorEvents(m)) = 1

\* the visits of the run that completed
CompletedVisits(m) == SelectSeq(visits[m], LAMBDA v : v.ok)

\* C7: in streaming mode, when the walk fails and no handler ends up being
\* invoked (none declared, or the declared name resolves to no agent), the
\* last event is the error event {error: message}, no final_result event
\* is yielded, and the events before it are the step events of the
\* completed steps.
C7_StreamEndsWithError ==
    LET m == "streaming"
    IN (/\ pc[m] = "done" /\ Failed(m) /\ ~HandlerInvoked(m)
        /\ Len(visits[m]) > 0 /\ ~Last(visits[m]).ok) =>
           /\ Len(events[m]) = Len(CompletedVisits(m)) + 1
           /\ Last(events[m]) = ErrorEvent(err[m])
           /\ \A i \in 1..(Len(events[m]) - 1) :
                  /\ events[m][i].kind = "step"
                  /\ events[m][i].step_name = CompletedVisits(m)[i].step

\* a step of the definition references a name that does not resolve
DanglingReference(t) ==
    \E i \in 1..Len(t.steps) :
        LET st == t.steps[i]
        IN \/ (st.agent.st = "name" /\ st.agent.id \notin CreateOrRestoreAgents)
           \/ \E j \in 1..Len(st.parallel) :
                  st.parallel[j].st = "name" /\ st.parallel[j].id \notin CreateOrRestoreAgents
           \/ (st.loop.present /\ st.loop.agent.st = "name"
                               /\ st.loop.agent.id \notin CreateOrRestoreAgents)
           \/ (st.workflow # "" /\ ~WorkflowFound(t.workflows, st.workflow))

\* C8: when any step references a name that does not resolve (step agent,
\* parallel member, loop agent, sub-workflow), binding fails with a
\* resolution error before any step's agent is invoked: the walk is never
\* entered and no step invocation is made.
C8_DanglingFailsAtBind ==
    DanglingReference(given) =>
        \A m \in Modes :
            /\ pc[m] \notin {"walk", "walked"}
            /\ visits[m] = <<>>
            /\ \A i \in 1..Len(invocations[m]) : invocations[m][i].step_index = -1

\* the step the walk of m is about to visit
CurrentDef(m) == StepDef(template[self[m]].steps, current[m])

\* the walk of m executes one iteration in this step
Iterates(m) ==
    /\ pc[m] = "walk" /\ current[m] \in StepNamesOf(template[self[m]].steps)
    /\ (pc'[m] # pc[m] \/ visits'[m] # visits[m])

\* every source is "prompt" or the name of a step with a recorded output
SourcesRecorded(m, srcs) ==
    \A i \in 1..Len(srcs) : srcs[i] = "prompt" \/ srcs[i] \in DOMAIN step_results[m]

\* what a source stands for: the initial prompt of the run, or the recorded
\* output of the step
SourceValue(m, src) ==
    IF src = "prompt" THEN initial_prompt[m] ELSE step_results[m][src]

\* C9: a step whose `from` lists two or more sources ("prompt" or steps with
\* a recorded output) is given the string forms of the resolved sources, in
\* listed order, joined by "\n\n", the empty ones omitted; from = [prompt,
\* stepA] with initial prompt A and stepA's output B gives "A\n\nB".
C9_MultiSourceJoin ==
    [][\A m \in Modes :
          (/\ Iterates(m)
           /\ Len(FromSources(CurrentDef(m))) >= 2
           /\ SourcesRecorded(m, FromSources(CurrentDef(m))))
          => LET srcs == FromSources(CurrentDef(m))
                 vals == [i \in 1..Len(srcs) |-> SourceValue(m, srcs[i])]
             IN /\ Len(visits'[m]) = Len(visits[m]) + 1
                /\ Last(visits'[m]).input = StrV(JoinTruthy(vals))]_vars

\* C10: a step whose `from` is a single source (a bare name or a
\* one-element list) naming a step with a recorded output is invoked, in
\* both modes, with that recorded value itself, whatever its type.
C10_SingleSourceVerbatim ==
    [][\A m \in Modes :
          (/\ Iterates(m)
           /\ Len(FromSources(CurrentDef(m))) = 1
           /\ FromSources(CurrentDef(m))[1] \in DOMAIN step_results[m])
          => /\ Len(visits'[m]) = Len(visits[m]) + 1
             /\ Last(visits'[m]).input = step_results[m][FromSources(CurrentDef(m))[1]]]_vars

\* the definition of the step of a recorded visit
VisitDef(m, v) == StepDef(template[self[m]].steps, v.step)

\* C11: at every step of a walk, the `from` source "prompt" resolves to the
\* initial prompt the run started with, not to the output of a previously
\* executed step: a step whose `from` is the single source "prompt" is
\* given the initial prompt as its input.
C11_PromptSourceIsInitial ==
    \A m \in Modes :
        \A i \in 1..Len(visits[m]) :
            FromSources(VisitDef(m, visits[m][i])) = <<"prompt">>
                => visits[m][i].input = initial_prompt[m]

\* the source is not "prompt" and no recorded output stands for it: neither
\* a step of that name nor the step bound to an agent of that name has one
Unresolved(m, src) ==
    /\ src # "prompt"
    /\ src \notin DOMAIN step_results[m]
    /\ AgentStepName(template[self[m]].steps, src) \notin DOMAIN step_results[m]

\* the source names, as the literal values they fall back to
Literals(srcs) == [i \in 1..Len(srcs) |-> StrV(srcs[i])]

\* C12: a `from` source that is not "prompt" and resolves to no recorded
\* output is used as a literal value equal to the source name, and resolving
\* it never fails the run: the step is invoked, with the name itself when it
\* is the only source and with the names joined by "\n\n" when all of
\* several sources are unresolved.
C12_UnresolvedSourceIsLiteral ==
    [][\A m \in Modes :
          (/\ Iterates(m)
           /\ Len(FromSources(CurrentDef(m))) > 0
           /\ \A i \in 1..Len(FromSources(CurrentDef(m))) :
                  Unresolved(m, FromSources(CurrentDef(m))[i]))
          => LET srcs == FromSources(CurrentDef(m))
             IN /\ Len(visits'[m]) = Len(visits[m]) + 1
                /\ Last(visits'[m]).input =
                       IF Len(srcs) = 1 THEN StrV(srcs[1])
                       ELSE StrV(JoinTruthy(Literals(srcs)))]_vars

\* a blocking run completed whose first step was given the literal "a2" for
\* its source a2, the name of an agent no step with an output is bound to
C12_Witness ==
    /\ pc["blocking"] = "done" /\ ~Failed("blocking")
    /\ Len(visits["blocking"]) >= 2
    /\ FromSources(VisitDef("blocking", visits["blocking"][1])) = <<"a2">>
    /\ visits["blocking"][1].input = StrV("a2")
    /\ visits["blocking"][1].ok

\* C13: a step with no `from` receives as input the output of the step
\* visited immediately before it in the walk (after a `next` jump the
\* jumping step's output, not the declaration-order predecessor's), and the
\* first visited step receives the initial prompt.
C13_NoFromTakesPreviousOutput ==
    \A m \in Modes :
        \A i \in 1..Len(visits[m]) :
            FromSources(VisitDef(m, visits[m][i])) = <<>>
                => visits[m][i].input =
                       IF i = 1 THEN initial_prompt[m] ELSE visits[m][i - 1].out

\* s1 jumped over s2 to s3, and s3, which has no `from`, completed on s1's
\* output
C13_Witness ==
    \E m \in Modes :
        /\ Len(template[self[m]].steps) = 3
        /\ Len(visits[m]) >= 2
        /\ visits[m][1].step = "s1" /\ visits[m][1].next = NextTo("s3")
        /\ visits[m][1].input = initial_prompt[m]
        /\ visits[m][2].step = "s3" /\ visits[m][2].ok
        /\ FromSources(VisitDef(m, visits[m][2])) = <<>>
        /\ visits[m][2].input = visits[m][1].out
        /\ "s2" \notin DOMAIN step_results[m]

(***************************************************************************)
(* Properties of the event scheduler                                       *)
(***************************************************************************)
\* the k-th tick is the first one at which the cron expression matched
FirstMatch(m, k) ==
    ticks[m][k].match /\ \A j \in 1..(k - 1) : ~ticks[m][j].match

\* the ticks at which the body was run
Firings(m) == {k \in 1..Len(ticks[m]) : ticks[m][k].fire}

\* C14: over the lifetime of one process_event call, for any sequence of
\* ticks and cron matches, the body is run exactly once, at the first tick
\* at which the cron expression matches, and at no tick before or after
\* it: the event agent is called and the sub-sequence is walked at that
\* tick only.
C14_BodyFiresOnceAtFirstMatch ==
    \A m \in Modes :
        /\ \A k \in 1..Len(ticks[m]) :
               /\ ticks[m][k].fire <=> FirstMatch(m, k)
               /\ ticks[m][k].call # <<>> => FirstMatch(m, k)
        /\ Cardinality(Firings(m)) <= 1
        /\ (sub_visits[m] # <<>> \/ pc[m] = "subflow") =>
               Firings(m) = {Len(ticks[m])} \/ ~run_once[m]
        /\ ~run_once[m] => Firings(m) # {}

\* the cron expression did not match at the first tick and matched at the
\* second and the third: the body (agent r1, then the sub-sequence) ran at
\* the second only
C14_Witness ==
    LET m == "blocking"
    IN /\ Len(ticks[m]) = 3
       /\ ~ticks[m][1].match /\ ticks[m][2].match /\ ticks[m][3].match
       /\ Firings(m) = {2}
       /\ ticks[m][2].call # <<>>
       /\ Len(sub_visits[m]) = 2
       /\ outcome[m].st = "returned"

\* process_event of m runs its body in this step
FiresNow(m) ==
    /\ pc[m] = "polling"
    /\ Len(ticks'[m]) = Len(ticks[m]) + 1
    /\ Last(ticks'[m]).fire

\* C15: when the scheduler fires and the designated event agent is held in
\* the agent table, the agent is invoked with the current final_prompt and
\* completes, and afterwards the map holds the agent's output both under
\* the agent's name and as final_prompt.
C15_EventAgentInvoked ==
    [][\A m \in Modes :
          LET ev == template[self[m]].event
          IN (/\ FiresNow(m)
              /\ ev.agent \in agents[self[m]]
              /\ "final_prompt" \in DOMAIN result[m])
             => LET r == AgentRun(ev.agent, result[m]["final_prompt"])
                IN /\ Last(ticks'[m]).call =
                          <<[agent |-> ev.agent, input |-> result[m]["final_prompt"]]>>
                   /\ r.ok => /\ pc'[m] # "except"
                              /\ ev.agent \in DOMAIN result'[m]
                              /\ result'[m][ev.agent] = r.out
                              /\ result'[m]["final_prompt"] = r.out]_vars

\* process_event of m starts an iteration after the one that ran the body
TicksAfterFiring(m) ==
    /\ pc[m] = "polling" /\ ~run_once[m]
    /\ Len(ticks'[m]) = Len(ticks[m]) + 1

\* the exit predicate, evaluated over the current map at the new tick
ExitHoldsNow(m) ==
    /\ template[self[m]].event.exit # ""
    /\ eval_expression(template[self[m]].event.exit, result[m], Last(ticks'[m]).world)

\* C16: after the body has fired the scheduler is an exit-predicate poll:
\* on every later tick at which the exit predicate evaluates true over the
\* current results map, the scheduler returns the aggregate, whether or not
\* the cron expression matches at that tick.
C16_ExitPolledEveryTick ==
    [][\A m \in Modes :
          (TicksAfterFiring(m) /\ ExitHoldsNow(m))
          => /\ pc'[m] = "done"
             /\ m = "blocking" => outcome'[m] = ReturnedAggregate(result[m])]_vars

FinalEvents(m) == SelectSeq(events[m], LAMBDA e : e.kind = "final_result")

\* the scheduler of m has been started
SchedulerStarted(m) == pc[m] \in {"polling", "subflow"} \/ ticks[m] # <<>>

\* run() with an event: the scheduler starts after the first full pass, on
\* that pass's aggregate, and run() returns what the scheduler returns
BlockingHandOff ==
    LET m == "blocking"
    IN /\ SchedulerStarted(m) =>
              /\ Len(visits[m]) = Len(template[self[m]].steps)
              /\ \A i \in 1..Len(visits[m]) : visits[m][i].ok
       /\ (pc[m] = "polling" /\ ticks[m] = <<>>) =>
              result[m] = Aggregate(Last(visits[m]).out, step_results[m])
       /\ (pc[m] = "done" /\ ~Failed(m)) =>
              outcome[m] = ReturnedAggregate(result[m])

\* run_streaming with an event: one final_result event, the last one,
\* carrying the scheduler's aggregate
StreamingHandOff ==
    LET m == "streaming"
    IN /\ Len(FinalEvents(m)) <= 1
       /\ (pc[m] = "done" /\ ~Failed(m)) =>
              /\ Len(FinalEvents(m)) = 1
              /\ Last(events[m]) = FinalEvent(result[m])
              /\ "final_prompt" \in DOMAIN result[m]

\* C17: when the definition declares an event, run() starts the scheduler
\* only after the first full pass over the steps has completed, passes it
\* that pass's aggregate and returns what the scheduler returns; in
\* streaming mode the stream contains exactly one final_result event, it is
\* the last event, and it carries the scheduler's aggregate.
C17_EventHandOff == BlockingHandOff /\ StreamingHandOff

\* the names of the steps that completed a visit
CompletedNames(m) == {visits[m][i].step : i \in {j \in 1..Len(visits[m]) : visits[m][j].ok}}

\* the output of the most recent completed visit of step n
LatestOutput(m, n) ==
    LET i == CHOOSE j \in 1..Len(visits[m]) :
                 /\ visits[m][j].step = n /\ visits[m][j].ok
                 /\ \A k \in (j + 1)..Len(visits[m]) :
                        ~(visits[m][k].step = n /\ visits[m][k].ok)
    IN visits[m][i].out

\* C18: in every reachable state of a walk, the results map has an entry
\* only for the steps that have completed at least one visit, and each
\* entry holds the output of that step's most recent completed visit (a
\* revisit overwrites); a visit whose invocation raised adds no entry.
C18_ResultsAreCompletedVisits ==
    \A m \in Modes :
        /\ DOMAIN step_results[m] = CompletedNames(m)
        /\ \A n \in CompletedNames(m) : step_results[m][n] = LatestOutput(m, n)

\* s1 completed twice with different outputs, the map holds the second one,
\* and the step that raised afterwards has no entry
C18_Witness ==
    \E m \in Modes :
        /\ Len(visits[m]) >= 3
        /\ visits[m][1].step = "s1" /\ visits[m][1].ok
        /\ visits[m][2].step = "s1" /\ visits[m][2].ok
        /\ visits[m][2].out # visits[m][1].out
        /\ step_results[m]["s1"] = visits[m][2].out
        /\ ~Last(visits[m]).ok
        /\ Last(visits[m]).step \notin DOMAIN step_results[m]

\* C19: in every reachable state of a walk the execution pointer names a
\* step declared in the workflow, for any `next` a step may return: a `next`
\* naming an undeclared step never becomes the current step of an
\* iteration.
C19_PointerIsDeclared ==
    \A m \in Modes :
        pc[m] = "walk" => current[m] \in StepNamesOf(template[self[m]].steps)

C21_HookLogsEveryInvocation ==
    \A m \in Modes :
        \A i \in 1..Len(invocations[m]) :
            Hooked(invocations[m][i].agent) => invocations[m][i].logged

\* the agent invocations made for the visit v of the walk of m
CallsOf(m, v) == SelectSeq(invocations[m], LAMBDA c : c.step_index = v.step_index)

\* C22: a parallel step gives every member agent the same effective input,
\* completes only after every member has returned, and its output lists
\* the members' outputs in member declaration order, for every order in
\* which the members may complete.
C22_ParallelJoinInDeclaredOrder ==
    \A m \in Modes :
        \A i \in 1..Len(visits[m]) :
            LET v == visits[m][i]
                members == VisitDef(m, v).parallel
            IN (Len(members) > 0 /\ v.ok) =>
                   /\ Len(CallsOf(m, v)) = Len(members)
                   /\ \A j \in 1..Len(members) :
                          /\ CallsOf(m, v)[j].agent = members[j].id
                          /\ CallsOf(m, v)[j].input = v.input
                   /\ v.out = ListV("[" \o ReprJoin([j \in 1..Len(members) |->
                                  AgentRun(members[j].id, v.input).out]) \o "]")

\* a parallel step of three members, whose outputs differ, completed
C22_Witness ==
    \E m \in Modes :
        /\ pc[m] = "done" /\ ~Failed(m)
        /\ \E i \in 1..Len(visits[m]) :
               /\ Len(VisitDef(m, visits[m][i]).parallel) = 3
               /\ visits[m][i].ok
               /\ Len(CallsOf(m, visits[m][i])) = 3
               /\ visits[m][i].out.ty = "list"

\* the prompt a call was started with: its argument, or the definition's
\* prompt when the argument is empty
StartedWith(m) == IF Truthy(prompt_arg[m]) THEN prompt_arg[m] ELSE given.prompt

\* the run is in its walk or has returned from it
InWalk(m) == pc[m] \in {"walk", "walked"} \/ (pc[m] = "done" /\ ticks[m] = <<>>)

\* the results map of the run holds the outputs of its own step invocations
OwnResults(m) ==
    InWalk(m) =>
        /\ DOMAIN step_results[m] = CompletedNames(m)
        /\ \A n \in CompletedNames(m) : step_results[m][n] = LatestOutput(m, n)

\* the aggregate a blocking run returned is made of its own outputs
OwnAggregate(m) ==
    (outcome[m].st = "returned" /\ ticks[m] = <<>>) =>
        /\ outcome[m].agg["final_prompt"] = Last(visits[m]).out
        /\ \A n \in CompletedNames(m) : outcome[m].agg[n] = LatestOutput(m, n)

\* "prompt" and the input of the first step are the prompt the run was
\* started with
OwnPrompt(m) ==
    /\ pc[m] \notin {"idle", "bind"} => initial_prompt[m] = StartedWith(m)
    /\ visits[m] # <<>> => visits[m][1].input = StartedWith(m)

\* C23: when run() and run_streaming() of one Workflow object are
\* interleaved at the agent invocations, the results map and the returned
\* aggregate of each run hold only the outputs of that run's own step
\* invocations, and each run resolves "prompt" and the input of its first
\* step to the prompt it was started with.
C23_InterleavedRunsIsolated ==
    \A m \in Modes : OwnResults(m) /\ OwnAggregate(m) /\ OwnPrompt(m)

\* task m is between two ticks of process_event: the last tick neither
\* returned nor raised, the loop slept and goes on
BetweenTicks(m) == pc[m] = "polling" /\ ticks[m] # <<>>

\* task k is suspended in a step of its walk and has a step left to take
Suspended(k) == pc[k] = "walk" /\ step_index[k] < MaxVisits

\* C24: every scheduler tick is a suspension point: between two consecutive
\* ticks of process_event the run's task yields control, so a second run on
\* the same event loop that is suspended in a step can take that step
\* while the scheduler is polling.
C24_TickYields ==
    \A m \in Modes, k \in Modes :
        (m # k /\ BetweenTicks(m) /\ Suspended(k)) => ENABLED TaskVisit(k)

\* the fields of the definition the caller reads after a run
CallerFields(t) ==
    [prompt |-> t.prompt,
     steps |-> [i \in 1..Len(t.steps) |->
                   [agent |-> t.steps[i].agent, workflow |-> t.steps[i].workflow,
                    parallel |-> t.steps[i].parallel, loop |-> t.steps[i].loop]]]

\* C25: run and run_streaming leave the caller's definition unchanged: after
\* a run the template's prompt and every step's agent, workflow, parallel
\* and loop fields equal their values before the run.
C25_DefinitionUnchanged ==
    \A m \in Modes :
        pc[m] = "done" => CallerFields(template[self[m]]) = CallerFields(given)

\* C26: restore_agent(name) after save_agent(agent, agent_def) under that
\* name returns (instance, True) when the agent was stored as a pickled
\* instance and (agent_def, False) when the agent could not be pickled and
\* its definition was stored instead, for every definition; for a name with
\* no stored entry it returns (name, False) without raising.
C26_RestoreAfterSave ==
    restored.st # "not called" =>
        LET n == restored.name
        IN IF n \in DOMAIN saved
           THEN IF saved[n].agent.picklable
                THEN restored = [GaveInstance(saved[n].agent) EXCEPT !.name = n]
                ELSE restored = [GaveDefinition(saved[n].agent_def) EXCEPT !.name = n]
           ELSE restored = GaveName(n)

\* the agents of the table whose report is counted
Counted(tbl) ==
    {n \in DOMAIN tbl : /\ tbl[n].has_get_token_usage
                        /\ "prompt_tokens" \in DOMAIN tbl[n].counters}

\* the sum of one counter over the counted agents
RECURSIVE SumOf(_, _, _)
SumOf(tbl, names, key) ==
    IF names = {} THEN 0
    ELSE LET n == CHOOSE x \in names : TRUE
         IN GetOr0(tbl[n].counters, key) + SumOf(tbl, names \ {n}, key)

Evaluating(env) == env.enabled /\ env.available /\ env.initialised

get_context_state(m) == context[self[m]]

\* C29: after every completed step, in blocking and in streaming mode, the
\* context map exposed by get_context_state() equals the run's results map
\* at that point (same step names, same outputs).
C29_ContextMirrorsResults ==
    \A m \in Modes :
        (InWalk(m) /\ CompletedNames(m) # {}) => get_context_state(m) = step_results[m]

\* the step events of the stream
StepEvents(m) == SelectSeq(events[m], LAMBDA e : e.kind = "step")

\* the agent_name of a step as the caller declared it: the agent's name for
\* a single-agent step, null for the other kinds
DeclaredAgentName(n) ==
    LET def == StepDef(given.steps, n)
    IN IF def.agent.st = "name" /\ def.agent.id # "" THEN StrV(def.agent.id) ELSE NoneV

\* C30: the k-th step event yielded by run_streaming (k from 0, revisits
\* counted as new visits) has step_index = k, step_name = the step visited
\* k-th, step_result = the output recorded for that visit, and agent_name =
\* the bound agent's name for a single-agent step and null for every other
\* kind; the index given to the step's invocation is the same k.
C30_StepEventShape ==
    LET m == "streaming"
    IN /\ Len(StepEvents(m)) = Len(CompletedVisits(m))
       /\ \A i \in 1..Len(StepEvents(m)) :
              LET e == StepEvents(m)[i]
                  v == visits[m][i]
              IN /\ e.step_index = i - 1
                 /\ v.ok /\ v.step_index = i - 1
                 /\ e.step_name = v.step
                 /\ e.step_result = v.out
                 /\ e.agent_name = DeclaredAgentName(v.step)

\* a stream of three step events in which s1 was visited twice
C30_Witness ==
    /\ pc["streaming"] = "done"
    /\ Len(StepEvents("streaming")) = 3
    /\ StepEvents("streaming")[1].step_name = "s1"
    /\ StepEvents("streaming")[2].step_name = "s1"
    /\ StepEvents("streaming")[2].step_index = 1
    /\ StepEvents("streaming")[3].agent_name = StrV("a1")

\* agent materialization has run for the call
Materialized(m) == pc[m] # "idle"

\* C31: after agent materialization every handle in the agent table,
\* constructed from a definition or restored from the registry by name, has
\* the logging hook wrapped around its run operation.
C31_EveryHandleHooked ==
    \A m \in Modes :
        Materialized(m) => \A a \in agents[self[m]] : Hooked(a)

\* the scheduler of m returned its map
SchedulerReturned(m) == pc[m] = "done" /\ ticks[m] # <<>> /\ ~Failed(m)

\* the keys the body of the event adds to the map: the event's agent and
\* the completed steps of the sub-sequence
BodyKeys(m) ==
    LET ev == template[self[m]].event
    IN (IF ev.agent # "" THEN {ev.agent} ELSE {})
       \cup {sub_visits[m][i].step : i \in {j \in 1..Len(sub_visits[m]) : sub_visits[m][j].ok}}

\* C32: process_event never returns before the body has fired: the exit
\* predicate is evaluated for the first time on the tick of the firing,
\* after the agent and the sub-sequence have completed and been merged, and
\* never on an earlier tick.
C32_ExitAfterFiring ==
    \A m \in Modes :
        /\ SchedulerReturned(m) => Firings(m) # {}
        /\ pc[m] = "subflow" => polls[m] = <<>>
        /\ \A i \in 1..Len(polls[m]) :
               /\ \E k \in Firings(m) : k <= polls[m][i].tick
               /\ ticks[m][polls[m][i].tick].match
        /\ polls[m] # <<>> =>
               /\ polls[m][1].tick \in Firings(m)
               /\ BodyKeys(m) \subseteq DOMAIN result[m]

\* a tick that did not match, then the firing with an agent and a
\* sub-sequence, the first exit check on that tick, and the return
C32_Witness ==
    \E m \in Modes :
        /\ SchedulerReturned(m)
        /\ Len(ticks[m]) >= 2 /\ ~ticks[m][1].match
        /\ Firings(m) = {2}
        /\ template[self[m]].event.agent # ""
        /\ sub_visits[m] # <<>>
        /\ polls[m][1].tick = 2

\* the body of the event has completed with a sub-sequence declared
SubWalkCompleted(m) ==
    /\ template[self[m]].event.steps # <<>>
    /\ ~run_once[m]

\* the final prompt the nested walk is seeded with: the output of the
\* event's agent when there is one, the first pass's final prompt otherwise
SeedPrompt(m) ==
    LET ev == template[self[m]].event
        final == Last(visits[m]).out
    IN IF ev.agent # "" THEN AgentRun(ev.agent, final).out ELSE final

\* the steps the nested walk visited
SubVisited(m) == {sub_visits[m][i].step : i \in 1..Len(sub_visits[m])}

\* C33: when the scheduler fires with a declared sub-sequence, the nested
\* walk is seeded with the updated final_prompt and executes every step
\* named in event.steps exactly once and no step outside that list, whatever
\* order the names are listed in; its outputs are merged into the aggregate.
C33_SubSequenceVisitsEveryName ==
    \A m \in Modes :
        SubWalkCompleted(m) =>
            LET names == template[self[m]].event.steps
            IN /\ sub_visits[m][1].input = SeedPrompt(m)
               /\ SubVisited(m) = {names[i] : i \in 1..Len(names)}
               /\ Len(sub_visits[m]) = Len(names)
               /\ \A i \in 1..Len(sub_visits[m]) :
                      /\ sub_visits[m][i].step \in DOMAIN result[m]
                      /\ result[m][sub_visits[m][i].step] = sub_visits[m][i].out

\* the fields of the steps the bind phase writes
BoundFields(steps) ==
    [i \in 1..Len(steps) |->
        [agent |-> steps[i].agent, workflow |-> steps[i].workflow,
         parallel |-> steps[i].parallel, loop |-> steps[i].loop]]

\* the binding of the definition as declared, against the agent table
DeclaredBinding == BindFrom(CreateOrRestoreAgents, given.workflows, given.steps, 1)

\* C34: binding is idempotent on an already-bound definition: when the bind
\* phase runs again on the same Workflow object, every agent step, parallel
\* member, loop agent and sub-workflow reference ends up resolved to the
\* target the table holds for the originally declared name, never to an
\* absent handle or a spurious resolution error.
C34_BindIdempotent ==
    \A m \in Modes :
        (pc[m] \notin {"idle", "bind"} /\ DeclaredBinding.ok) =>
            /\ BoundFields(template[self[m]].steps) = BoundFields(DeclaredBinding.steps)
            /\ err[m] # ErrV("Workflow doesn't exist")

\* definitions whose last step names an agent as its source: s1 may jump,
\* s2 and s3 are bound to the same agent unless s2's is another one, and s3
\* may be visited again
AgentSourceTemplates ==
    {[prompt |-> StrV("T"),
      steps |-> <<[BaseStep(StepNameAt(1), "a1") EXCEPT !.cond = TRUE],
                  BaseStep(StepNameAt(2), second),
                  [BaseStep(StepNameAt(3), "a2") EXCEPT
                       !.cond = TRUE, !.from = [bare |-> b, src |-> <<"a2">>]]>>,
      workflows |-> Workflows, exception |-> NoException, event |-> NoEvent] :
        second \in {"a1", "a2", "bad"}, b \in BOOLEAN}

\* one call on a fresh Workflow built from such a definition
InitAgentSource ==
    \E m \in Modes, t \in AgentSourceTemplates : InitWith(<<m>>, OwnObject, t)

SpecAgentSource == InitAgentSource /\ [][Next]_vars

\* the steps with a recorded output that are bound to the agent named src
BoundCompleted(m, src) ==
    {n \in DOMAIN step_results[m] :
        AgentStepMatches(StepDef(template[self[m]].steps, n), src)}

\* src is the name of an agent some step is bound to, and of no step with a
\* recorded output
AgentSource(m, src) ==
    /\ src # "prompt"
    /\ src \notin DOMAIN step_results[m]
    /\ \E i \in 1..Len(template[self[m]].steps) :
           AgentStepMatches(template[self[m]].steps[i], src)

\* C35: in blocking mode, a `from` source that equals an agent name resolves
\* to the recorded output of a completed step bound to that agent whenever
\* such a step exists, also when several steps are bound to the agent and
\* only a later-declared one has completed; it falls back to the literal
\* name only when no step bound to the agent has a recorded output. Stated
\* of the input the step is invoked with.
C35_AgentSourceResolves ==
    [][LET m == "blocking"
       IN (/\ Iterates(m)
           /\ Len(visits'[m]) = Len(visits[m]) + 1
           /\ Len(FromSources(CurrentDef(m))) = 1
           /\ AgentSource(m, FromSources(CurrentDef(m))[1]))
          => LET src == FromSources(CurrentDef(m))[1]
             IN IF BoundCompleted(m, src) # {}
                THEN Last(visits'[m]).input \in
                         {step_results[m][n] : n \in BoundCompleted(m, src)}
                ELSE Last(visits'[m]).input = StrV(src)]_vars

\* the call of m has finished and no other call on its object is in flight
FinishedAlone(m) ==
    /\ pc[m] = "done"
    /\ \A k \in Modes \ {m} : self[k] = self[m] => pc[k] \in {"idle", "done"}

\* C36: after any run or run_streaming on a Workflow object has finished
\* (normally, with a swallowed error or with a propagated one), the second
\* and later runs on the same object included, the timing is closed:
\* _timing_started is false and workflow_end_time is not earlier than
\* workflow_start_time, so the reported execution time is never negative.
C36_TimingClosed ==
    \A m \in Modes :
        FinishedAlone(m) =>
            /\ ~timing_started[self[m]]
            /\ workflow_end_time[self[m]] # NoTime
            /\ workflow_end_time[self[m]] >= workflow_start_time[self[m]]
            /\ get_workflow_execution_time(self[m]) >= 0

\* C37: after CodeAgent.run returns or raises, for every failure point
\* (creating the environment, installing the dependencies, executing the
\* code, parsing its output), the virtual environment created for that
\* invocation has been removed and venv_path is None.
C37_VenvRemoved ==
    (code_answer # NotRun /\ code_env.fault # "rmtree") =>
        /\ venv_path = NoPath
        /\ ~venv_exists

====
